---- MODULE Spec2Model ----
(***************************************************************************)
(* Model of the core of the perceptia compositor: the Coordinator          *)
(* (src/src/qualia/coordinator.rs), the Signaler                           *)
(* (src/src/dharma/signaler.rs) and their clients.                         *)
(*                                                                         *)
(* The Coordinator is a struct InnerCoordinator behind one mutex.  Every   *)
(* method of InnerCoordinator is an operator taking the struct `c` and     *)
(* giving a result [co, ev, ret]: the struct after the call, the sequence  *)
(* of events the call handed to Signaler::emit, and the returned value.    *)
(***************************************************************************)
EXTENDS Integers, Sequences, FiniteSets, TLC

----------------------------------------------------------------------------
(* Bounds of the model *)

\* create_surface is called at most this many times (Spec, SpecMem, SpecAux)
MaxSurfaces == 1
\* create_surface is called at most this many times (SpecIds)
MaxIds == 3
\* create_surface is called at most this many times (SpecRel)
MaxRelSurfaces == 2
\* create_surface is called at most this many times (SpecBuf)
MaxBufSurfaces == 1
\* create_pool_from_memory / create_pool_from_buffer are called at most this often
MaxPools == 1
\* create_memory_view is called at most this many times
MaxViews == 1
\* a satellite list grows to at most this length
MaxSatellites == 2
\* the public methods are called at most this many times (SpecConc)
MaxConcCalls == 2
\* modules emit at most this many signals without the Coordinator (SpecConc)
MaxDirect == 1
\* capacity of the buffer between a Sender and a Receiver
MaxQueue == 2
MaxSigCalls == 2
MaxRegistrations == 2
MaxStorages == 2
MaxFrameSurfaces == 2
MaxLeaves == 2
MaxPackCalls == 1
\* a frame tree grows to at most this many frames (SpecSearch)
MaxSearchFrames == 4
\* find_contiguous is asked for at most this distance
MaxDistance == 2
\* the Exhibitor settles at most this many surfaces (SpecRemove)
MaxRemoveLeaves == 3
\* manage_surface settles at most this many leaves (SpecHist)
MaxManaged == 3
\* surfaces are related and unrelated at most this many times (SpecTrip)
MaxTripCalls == 3
\* the calls the threads make while the mutexes are watched (SpecLock)
MaxLockCalls == 3

----------------------------------------------------------------------------
(* Identifiers and flags (qualia::defs, qualia::surface) *)

\* SurfaceId::invalid()
InvalidSid == 0
\* MemoryPoolId::initial(), MemoryViewId::initial()
InitialId == 0

\* show_reason::{DRAWABLE, IN_SHELL, READY}: a mask is the set of its bits
DRAWABLE == {"DRAWABLE"}
IN_SHELL == {"IN_SHELL"}
READY == DRAWABLE \cup IN_SHELL
ShowReasons == {DRAWABLE, IN_SHELL}

\* surface_state::MAXIMIZED and the empty state
MAXIMIZED == {"MAXIMIZED"}
REGULAR == {}

\* Option::None of a buffer
NoView == [storage |-> "none"]

\* surface ids callers pass when create_surface is called at most `bound` times:
\* the invalid id, every id create_surface can return, and one never registered
SidArgs(bound) == 0 .. (bound + 1)
PoolArgs == 1 .. (MaxPools + 1)
ViewArgs == 1 .. (MaxViews + 1)
Sizes == {<<0, 0>>, <<4, 2>>}
Positions == {<<0, 0>>, <<1, 1>>}

----------------------------------------------------------------------------
(* Surface (qualia::surface) *)

\* Surface::new
Surface_new(id) ==
    [show_reason |-> {},
     pending_buffer |-> NoView,
     buffer |-> NoView,
     parent_sid |-> InvalidSid,
     satellites |-> <<id>>,
     offset |-> <<0, 0>>,
     requested_size |-> <<0, 0>>,
     relative_position |-> <<0, 0>>,
     desired_size |-> <<0, 0>>,
     state_flags |-> REGULAR]

\* Surface::attach
Surface_attach(s, view) == [s EXCEPT !.pending_buffer = view]

\* Surface::commit: promotes the pending buffer; tells if a buffer is newly present
Surface_commit(s) ==
    IF s.pending_buffer = NoView
    THEN [s |-> s, first |-> FALSE]
    ELSE [s |-> [s EXCEPT !.buffer = s.pending_buffer], first |-> s.buffer = NoView]

\* Surface::show
Surface_show(s, reason) == [s EXCEPT !.show_reason = s.show_reason \cup reason]

\* Surface::hide
Surface_hide(s, reason) == [s EXCEPT !.show_reason = s.show_reason \ reason]

\* Surface::add_satellite
Surface_add_satellite(s, sid) == [s EXCEPT !.satellites = Append(s.satellites, sid)]

\* Surface::remove_satellite
Surface_remove_satellite(s, sid) ==
    [s EXCEPT !.satellites = SelectSeq(s.satellites, LAMBDA x : x # sid)]

\* Surface::get_renderer_context
Surface_get_renderer_context(id, s) == [id |-> id, position |-> s.relative_position]

\* Surface::get_info
Surface_get_info(id, s) ==
    [id |-> id, parent_sid |-> s.parent_sid, desired_size |-> s.desired_size,
     state_flags |-> s.state_flags]

----------------------------------------------------------------------------
(* Events (qualia::perceptron) *)

Ev(id, args) == [id |-> id, args |-> args]
Notify == Ev("NOTIFY", <<>>)
SurfaceReady(sid) == Ev("SURFACE_READY", <<sid>>)
SurfaceDestroyed(sid) == Ev("SURFACE_DESTROYED", <<sid>>)
SurfaceReconfigured(sid) == Ev("SURFACE_RECONFIGURED", <<sid>>)
CursorSurfaceChange(sid) == Ev("CURSOR_SURFACE_CHANGE", <<sid>>)
KeyboardFocusChanged(old, new) == Ev("KEYBOARD_FOCUS_CHANGED", <<old, new>>)
PointerFocusChanged(old, new, pos) == Ev("POINTER_FOCUS_CHANGED", <<old, new, pos>>)

----------------------------------------------------------------------------
(* InnerCoordinator *)

\* HashMap::insert
Insert(map, k, v) == [x \in DOMAIN map \cup {k} |-> IF x = k THEN v ELSE map[x]]
\* HashMap::remove
Remove(map, k) == [x \in DOMAIN map \ {k} |-> map[x]]

EmptyMap == [x \in {} |-> 0]

Res(c, ev, ret) == [co |-> c, ev |-> ev, ret |-> ret]
\* Option::None and Option::Some
None == [none |-> TRUE]
Some(x) == [some |-> x]
Unit == "()"

\* InnerCoordinator::new
InnerCoordinator_new ==
    [surfaces |-> EmptyMap,
     memory_views |-> EmptyMap,
     memory_pools |-> EmptyMap,
     last_surface_id |-> InvalidSid,
     last_memory_view_id |-> InitialId,
     last_memory_pool_id |-> InitialId,
     kfsid |-> InvalidSid,
     pfsid |-> InvalidSid]

notify(c) == Res(c, <<Notify>>, Unit)

get_surface(c, sid) ==
    IF sid \in DOMAIN c.surfaces THEN Some(Surface_get_info(sid, c.surfaces[sid])) ELSE None

\* a call that never returns: the recursion goes on until the stack is used up
Overflow == [overflow |-> TRUE]

\* InnerCoordinator::get_renderer_context(sid), called inside the unfinished
\* calls for the surfaces of stack; ContextOfSatellites is its loop over the
\* satellites that are left, with the result so far.  The method reads the
\* registry without changing it, so a call for a surface that is on the stack
\* repeats the call it is nested in and the recursion has no end.
RECURSIVE RendererContext(_, _, _), ContextOfSatellites(_, _, _, _, _)

\* a get_renderer_context that takes a surface that is gone for an empty one
RendererContext_or_default(c, sid, stack) ==
    IF sid \notin DOMAIN c.surfaces
    THEN Some(<<Surface_get_renderer_context(sid, Surface_new(sid))>>)
    ELSE IF sid \in stack THEN Overflow
    ELSE ContextOfSatellites(c, sid, c.surfaces[sid].satellites, <<>>, stack \cup {sid})

RendererContext(c, sid, stack) ==
    IF sid \notin DOMAIN c.surfaces THEN None
    ELSE IF sid \in stack THEN Overflow
    ELSE ContextOfSatellites(c, sid, c.surfaces[sid].satellites, <<>>, stack \cup {sid})

ContextOfSatellites(c, sid, satellites, result, stack) ==
    IF satellites = <<>> THEN Some(result)
    ELSE LET child_sid == Head(satellites) IN
         IF child_sid = sid
         THEN ContextOfSatellites(c, sid, Tail(satellites),
                  Append(result, Surface_get_renderer_context(sid, c.surfaces[sid])), stack)
         ELSE LET array == RendererContext(c, child_sid, stack) IN
              IF array = Overflow THEN Overflow
              ELSE IF array = None
              THEN ContextOfSatellites(c, sid, Tail(satellites), result, stack)
              ELSE ContextOfSatellites(c, sid, Tail(satellites), result \o array.some, stack)

get_renderer_context(c, sid) == RendererContext(c, sid, {})

get_keyboard_focused_sid(c) == c.kfsid

\* a set_keyboard_focus that stores the focus before it builds the event
set_keyboard_focus_store_first(c, sid) ==
    IF c.kfsid # sid
    THEN Res([c EXCEPT !.kfsid = sid], <<KeyboardFocusChanged(sid, sid)>>, Unit)
    ELSE Res(c, <<>>, Unit)

set_keyboard_focus(c, sid) ==
    IF c.kfsid # sid
    THEN Res([c EXCEPT !.kfsid = sid], <<KeyboardFocusChanged(c.kfsid, sid)>>, Unit)
    ELSE Res(c, <<>>, Unit)

get_pointer_focused_sid(c) == c.pfsid

set_pointer_focus(c, sid, position) ==
    IF c.pfsid # sid
    THEN Res([c EXCEPT !.pfsid = sid], <<PointerFocusChanged(c.pfsid, sid, position)>>, Unit)
    ELSE Res(c, <<>>, Unit)

generate_next_memory_pool_id(c) == c.last_memory_pool_id + 1

\* a generator that counts the registered views instead of the ids handed out
generate_next_memory_view_id_by_count(c) == Cardinality(DOMAIN c.memory_views) + 1

generate_next_memory_view_id(c) == c.last_memory_view_id + 1

create_pool_from_memory(c, memory) ==
    LET mpid == generate_next_memory_pool_id(c) IN
    Res([c EXCEPT !.last_memory_pool_id = mpid,
                  !.memory_pools = Insert(@, mpid, [storage |-> memory])], <<>>, mpid)

create_pool_from_buffer(c, buffer) ==
    LET mpid == generate_next_memory_pool_id(c) IN
    Res([c EXCEPT !.last_memory_pool_id = mpid,
                  !.memory_pools = Insert(@, mpid, [storage |-> buffer])], <<>>, mpid)

\* a destroy_memory_pool that takes the views of the pool out of the registry
destroy_memory_pool_with_views(c, mpid) ==
    IF mpid \notin DOMAIN c.memory_pools THEN Res(c, <<>>, Unit)
    ELSE LET kept == {mvid \in DOMAIN c.memory_views :
                         c.memory_views[mvid] # c.memory_pools[mpid]}
         IN  Res([c EXCEPT !.memory_pools = Remove(@, mpid),
                           !.memory_views = [mvid \in kept |-> c.memory_views[mvid]]],
                 <<>>, Unit)

\* InnerCoordinator::destroy_memory_pool
destroy_memory_pool(c, mpid) ==
    Res([c EXCEPT !.memory_pools = Remove(@, mpid)], <<>>, Unit)

replace_memory_pool(c, mpid, memory) ==
    Res([c EXCEPT !.memory_pools = Insert(Remove(@, mpid), mpid, [storage |-> memory])],
        <<>>, Unit)

create_memory_view(c, mpid) ==
    LET id == generate_next_memory_view_id(c)
        c1 == [c EXCEPT !.last_memory_view_id = id]
    IN  IF mpid \in DOMAIN c.memory_pools
        THEN Res([c1 EXCEPT !.memory_views = Insert(@, id, c.memory_pools[mpid])], <<>>,
                 Some(id))
        ELSE Res(c1, <<>>, None)

destroy_memory_view(c, mvid) ==
    Res([c EXCEPT !.memory_views = Remove(@, mvid)], <<>>, Unit)

\* a generator that counts the registered surfaces instead of the ids handed out
generate_next_surface_id_by_count(c) == Cardinality(DOMAIN c.surfaces) + 1

generate_next_surface_id(c) == c.last_surface_id + 1

create_surface(c) ==
    LET id == generate_next_surface_id(c) IN
    Res([c EXCEPT !.last_surface_id = id,
                  !.surfaces = Insert(@, id, Surface_new(id))], <<>>, id)

detach_surface(c, sid) == Res(c, <<SurfaceDestroyed(sid)>>, Unit)

\* a destroy_surface that emits nothing
destroy_surface_unannounced(c, sid) ==
    Res([c EXCEPT !.surfaces = Remove(@, sid)], <<>>, Unit)

destroy_surface(c, sid) ==
    LET r == detach_surface(c, sid) IN
    Res([r.co EXCEPT !.surfaces = Remove(@, sid)], r.ev, Unit)

attach(c, mvid, sid) ==
    IF sid \notin DOMAIN c.surfaces THEN Res(c, <<>>, Unit)
    ELSE IF mvid \notin DOMAIN c.memory_views THEN Res(c, <<>>, Unit)
    ELSE Res([c EXCEPT !.surfaces[sid] = Surface_attach(@, c.memory_views[mvid])],
             <<>>, Unit)

\* a show_surface that does not look at the old show reason
show_surface_no_old_reason(c, sid, reason) ==
    IF sid \notin DOMAIN c.surfaces THEN Res(c, <<>>, Unit)
    ELSE LET s1 == Surface_show(c.surfaces[sid], reason)
         IN  Res([c EXCEPT !.surfaces[sid] = s1],
                 IF s1.show_reason = READY THEN <<SurfaceReady(sid)>> ELSE <<>>,
                 Unit)

\* a show_surface that does not look at the new show reason
show_surface_no_new_reason(c, sid, reason) ==
    IF sid \notin DOMAIN c.surfaces THEN Res(c, <<>>, Unit)
    ELSE LET old_reason == c.surfaces[sid].show_reason
             s1 == Surface_show(c.surfaces[sid], reason)
         IN  Res([c EXCEPT !.surfaces[sid] = s1],
                 IF old_reason # READY THEN <<SurfaceReady(sid)>> ELSE <<>>,
                 Unit)

show_surface(c, sid, reason) ==
    IF sid \notin DOMAIN c.surfaces THEN Res(c, <<>>, Unit)
    ELSE LET old_reason == c.surfaces[sid].show_reason
             s1 == Surface_show(c.surfaces[sid], reason)
         IN  Res([c EXCEPT !.surfaces[sid] = s1],
                 IF s1.show_reason = READY /\ old_reason # READY
                 THEN <<SurfaceReady(sid)>> ELSE <<>>,
                 Unit)

hide_surface(c, sid, reason) ==
    IF sid \notin DOMAIN c.surfaces THEN Res(c, <<>>, Unit)
    ELSE LET old_reason == c.surfaces[sid].show_reason
             s1 == Surface_hide(c.surfaces[sid], reason)
         IN  Res([c EXCEPT !.surfaces[sid] = s1],
                 IF s1.show_reason # READY /\ old_reason = READY
                 THEN <<SurfaceDestroyed(sid)>> ELSE <<>>,
                 Unit)

commit_surface(c, sid) ==
    IF sid \notin DOMAIN c.surfaces THEN Res(c, <<>>, Unit)
    ELSE LET cm == Surface_commit(c.surfaces[sid])
             c1 == [c EXCEPT !.surfaces[sid] = cm.s]
         IN  IF cm.first THEN show_surface(c1, sid, DRAWABLE) ELSE Res(c1, <<>>, Unit)

set_surface_offset(c, sid, offset) ==
    IF sid \notin DOMAIN c.surfaces THEN Res(c, <<>>, Unit)
    ELSE Res([c EXCEPT !.surfaces[sid].offset = offset], <<>>, Unit)

set_surface_requested_size(c, sid, size) ==
    IF sid \notin DOMAIN c.surfaces THEN Res(c, <<>>, Unit)
    ELSE Res([c EXCEPT !.surfaces[sid].requested_size = size], <<>>, Unit)

set_surface_relative_position(c, sid, position) ==
    IF sid \notin DOMAIN c.surfaces THEN Res(c, <<>>, Unit)
    ELSE Res([c EXCEPT !.surfaces[sid].relative_position = position], <<>>, Unit)

\* a relate_surfaces that hides IN_SHELL through hide_surface
relate_surfaces_hide_surface(c, sid, parent_sid) ==
    IF sid \notin DOMAIN c.surfaces THEN Res(c, <<>>, Unit)
    ELSE LET h == hide_surface([c EXCEPT !.surfaces[sid].parent_sid = parent_sid,
                                         !.surfaces[sid].relative_position = <<0, 0>>],
                               sid, IN_SHELL)
         IN  IF parent_sid \notin DOMAIN h.co.surfaces THEN Res(h.co, h.ev, Unit)
             ELSE Res([h.co EXCEPT !.surfaces[parent_sid] = Surface_add_satellite(@, sid)],
                      h.ev, Unit)

\* a relate_surfaces that puts the parent on the satellite list of the child
relate_surfaces_satellite_of_child(c, sid, parent_sid) ==
    IF sid \notin DOMAIN c.surfaces THEN Res(c, <<>>, Unit)
    ELSE LET s1 == Surface_hide([c.surfaces[sid] EXCEPT !.parent_sid = parent_sid,
                                                        !.relative_position = <<0, 0>>],
                                IN_SHELL)
             c1 == [c EXCEPT !.surfaces[sid] = s1]
         IN  IF parent_sid \notin DOMAIN c1.surfaces THEN Res(c1, <<>>, Unit)
             ELSE Res([c1 EXCEPT !.surfaces[sid] = Surface_add_satellite(@, parent_sid)],
                      <<>>, Unit)

\* InnerCoordinator::relate_surfaces
relate_surfaces(c, sid, parent_sid) ==
    IF sid \notin DOMAIN c.surfaces THEN Res(c, <<>>, Unit)
    ELSE LET s1 == Surface_hide([c.surfaces[sid] EXCEPT !.parent_sid = parent_sid,
                                                        !.relative_position = <<0, 0>>],
                                IN_SHELL)
             c1 == [c EXCEPT !.surfaces[sid] = s1]
         IN  IF parent_sid \notin DOMAIN c1.surfaces THEN Res(c1, <<>>, Unit)
             ELSE Res([c1 EXCEPT !.surfaces[parent_sid] = Surface_add_satellite(@, sid)],
                      <<>>, Unit)

\* an unrelate_surface that clears the parent and leaves the satellite lists
unrelate_surface_of_child(c, sid) ==
    IF sid \notin DOMAIN c.surfaces THEN Res(c, <<>>, Unit)
    ELSE Res([c EXCEPT !.surfaces[sid].parent_sid = InvalidSid], <<>>, Unit)

unrelate_surface(c, sid) ==
    IF sid \notin DOMAIN c.surfaces THEN Res(c, <<>>, Unit)
    ELSE LET parent_sid == c.surfaces[sid].parent_sid
             c1 == [c EXCEPT !.surfaces[sid].parent_sid = InvalidSid]
         IN  IF parent_sid \notin DOMAIN c1.surfaces THEN Res(c1, <<>>, Unit)
             ELSE Res([c1 EXCEPT !.surfaces[parent_sid] = Surface_remove_satellite(@, sid)],
                      <<>>, Unit)

set_surface_as_cursor(c, sid) == Res(c, <<CursorSurfaceChange(sid)>>, Unit)

\* a reconfigure that acts only when the size and the flags both differ
reconfigure_when_both_differ(c, sid, size, state_flags) ==
    IF sid \notin DOMAIN c.surfaces THEN Res(c, <<>>, Unit)
    ELSE IF c.surfaces[sid].desired_size # size /\ c.surfaces[sid].state_flags # state_flags
    THEN Res([c EXCEPT !.surfaces[sid].desired_size = size,
                       !.surfaces[sid].state_flags = state_flags],
             <<SurfaceReconfigured(sid)>>, Unit)
    ELSE Res(c, <<>>, Unit)

\* InnerCoordinator::reconfigure
reconfigure(c, sid, size, state_flags) ==
    IF sid \notin DOMAIN c.surfaces THEN Res(c, <<>>, Unit)
    ELSE IF c.surfaces[sid].desired_size # size \/ c.surfaces[sid].state_flags # state_flags
    THEN Res([c EXCEPT !.surfaces[sid].desired_size = size,
                       !.surfaces[sid].state_flags = state_flags],
             <<SurfaceReconfigured(sid)>>, Unit)
    ELSE Res(c, <<>>, Unit)

\* a Coordinator::commit_surface that notifies before it commits
Coordinator_commit_surface_notify_first(c, sid) ==
    LET r1 == notify(c)
        r2 == commit_surface(r1.co, sid)
    IN  Res(r2.co, r1.ev \o r2.ev, Unit)

\* Coordinator::commit_surface: commit_surface and notify under one lock
Coordinator_commit_surface(c, sid) ==
    LET r1 == commit_surface(c, sid)
        r2 == notify(r1.co)
    IN  Res(r2.co, r1.ev \o r2.ev, Unit)

----------------------------------------------------------------------------
(* Signaler (dharma::signaler) and the bridge below it (dharma::bridge) *)

\* the threads that call the Coordinator and the receivers of the modules
Threads == {"frontend", "exhibitor"}
Receivers == {"exhibitor", "observer"}

\* PageFlip, which a module emits on its own clone of the Signaler
PageFlip == Ev("PAGE_FLIP", <<>>)

\* ExhibitorModule::initialize: the signals the exhibitor subscribes to
ExhibitorSignals ==
    <<"NOTIFY", "PAGE_FLIP", "OUTPUT_FOUND", "COMMAND", "INPUT_POINTER_MOTION",
      "INPUT_POINTER_POSITION", "INPUT_POINTER_BUTTON", "INPUT_POINTER_POSITION_RESET",
      "CURSOR_SURFACE_CHANGE", "SURFACE_READY", "SURFACE_DESTROYED",
      "KEYBOARD_FOCUS_CHANGED">>

\* Signaler::new
Signaler_new == [map |-> EmptyMap, registry |-> <<>>]

\* bridge::Sender::new and bridge::connect: a sender is the set of its receivers
Sender_new == {}
Bridge_connect(sender, receiver) == sender \cup {receiver}

\* bridge::Sender::send to one receiver: a bounded buffer in arrival order;
\* a full buffer drops the newest or the oldest package
Bridge_enqueue(queue, package, policy) ==
    IF Len(queue) < MaxQueue THEN Append(queue, package)
    ELSE IF policy = "drop-newest" THEN queue
    ELSE Append(Tail(queue), package)

Policies == {"drop-newest", "drop-oldest"}

\* Event::Terminate
Terminate == [terminate |-> TRUE]

\* a subscribe that puts a new sender in the place of the one of the signal
Signaler_subscribe_new_sender(s, id, receiver) ==
    [s EXCEPT !.map = Insert(Remove(@, id), id, Bridge_connect(Sender_new, receiver))]

\* Signaler::subscribe
Signaler_subscribe(s, id, receiver) ==
    IF id \in DOMAIN s.map
    THEN [s EXCEPT !.map[id] = Bridge_connect(@, receiver)]
    ELSE [s EXCEPT !.map = Insert(@, id, Bridge_connect(Sender_new, receiver))]

\* Signaler::register
Signaler_register(s, receiver) ==
    [s EXCEPT !.registry = Append(@, Bridge_connect(Sender_new, receiver))]

\* bridge::Sender::send: the event goes to every receiver of the sender
Sender_send(sender, queues, event, policy) ==
    [r \in DOMAIN queues |->
        IF r \in sender THEN Bridge_enqueue(queues[r], event, policy[r]) ELSE queues[r]]

\* an emit that makes a sender for a signal that has none
Signaler_emit_or_insert(s, queues, package, policy) ==
    IF package.ev.id \in DOMAIN s.map
    THEN [signaler |-> s, queues |-> Sender_send(s.map[package.ev.id], queues, package, policy)]
    ELSE [signaler |-> [s EXCEPT !.map = Insert(@, package.ev.id, Sender_new)],
          queues |-> queues]

\* Signaler::emit: the InnerSignaler and the queues after the package went to
\* every receiver of the sender of its signal; nothing happens when the signal
\* has no sender
Signaler_emit(s, queues, package, policy) ==
    IF package.ev.id \in DOMAIN s.map
    THEN [signaler |-> s, queues |-> Sender_send(s.map[package.ev.id], queues, package, policy)]
    ELSE [signaler |-> s, queues |-> queues]

\* Terminate sent by the senders of the registry from the i-th on
RECURSIVE TerminateFrom(_, _, _, _)
TerminateFrom(registry, i, queues, policy) ==
    IF i > Len(registry) THEN queues
    ELSE TerminateFrom(registry, i + 1, Sender_send(registry[i], queues, Terminate, policy),
                       policy)

\* a terminate that goes to the senders of the signals as well
RECURSIVE Signaler_terminate_subscribers(_, _, _)
Signaler_terminate_subscribers(s, queues, policy) ==
    IF DOMAIN s.map = {}
    THEN TerminateFrom(s.registry, 1, queues, policy)
    ELSE LET id == CHOOSE x \in DOMAIN s.map : TRUE IN
         Signaler_terminate_subscribers([s EXCEPT !.map = Remove(@, id)],
             Sender_send(s.map[id], queues, Terminate, policy), policy)

\* Signaler::terminate: the queues after every sender of the registry has sent
\* Terminate
Signaler_terminate(s, queues, policy) == TerminateFrom(s.registry, 1, queues, policy)


\* a module's start: register the receiver and subscribe it to its signals
RECURSIVE SubscribeAll(_, _, _)
SubscribeAll(s, ids, receiver) ==
    IF ids = <<>> THEN s
    ELSE SubscribeAll(Signaler_subscribe(s, Head(ids), receiver), Tail(ids), receiver)

\* Event::Package with the critical section of the Coordinator it was emitted
\* in (lin = 0: emitted without the Coordinator), its place among the signals
\* of that section, the operation and the thread
Package(ev, lin, idx, op, thread) ==
    [ev |-> ev, lin |-> lin, idx |-> idx, op |-> op, thread |-> thread]

----------------------------------------------------------------------------
(* Frame (frames::frame).  The nodes live in an arena `fs`; a frame handle  *)
(* is the index of its node.  A node that has left the tree stays in the    *)
(* arena, for a handle may still name it.                                   *)

Geometries == {"Horizontal", "Vertical", "Stacked", "Floating"}

\* SurfaceId::is_valid
is_valid(sid) == sid # InvalidSid

\* Frame::new: a node without links
Frame_new(sid, mode, geometry, pos, size) ==
    [sid |-> sid, mode |-> mode, geometry |-> geometry, pos |-> pos, size |-> size,
     parent |-> None, space |-> <<>>, time |-> <<>>]

Frame_new_root == Frame_new(InvalidSid, "Root", "Floating", <<0, 0>>, <<0, 0>>)

Frame_new_display(pos, size) == Frame_new(InvalidSid, "Display", "Stacked", pos, size)

\* the Workspace a Display contains
Frame_new_workspace(geometry, pos, size) ==
    Frame_new(InvalidSid, "Workspace", geometry, pos, size)

Frame_new_leaf(sid, geometry) == Frame_new(sid, "Leaf", geometry, <<0, 0>>, <<0, 0>>)

\* Mode::is_top
Mode_is_top(mode) == mode \in {"Display", "Workspace"}

\* Frame::space_iter, Frame::time_iter, Frame::count_children
space_iter(fs, f) == fs[f].space
time_iter(fs, f) == fs[f].time
count_children(fs, f) == Len(fs[f].space)

\* a sequence without the element x
Without(seq, x) == SelectSeq(seq, LAMBDA y : y # x)

\* Frame::append with the frame put first in temporal order
Frame_append(fs, parent, f) ==
    [fs EXCEPT ![parent].space = Append(@, f),
               ![parent].time = <<f>> \o @,
               ![f].parent = Some(parent)]

\* Frame::remove: unlink from the siblings and the parent, without relaxing
Frame_remove(fs, f) ==
    IF fs[f].parent = None THEN fs
    ELSE LET parent == fs[f].parent.some IN
         [fs EXCEPT ![parent].space = Without(@, f),
                    ![parent].time = Without(@, f),
                    ![f].parent = None]

----------------------------------------------------------------------------
(* Searching (frames::searching) *)

\* a find_buildable that takes the frame itself whatever it is bound to
find_buildable_self(fs, f) == Some(f)

find_buildable(fs, f) ==
    IF is_valid(fs[f].sid) THEN fs[f].parent ELSE Some(f)

\* a find_top that does not ascend
find_top_here(fs, f) == IF Mode_is_top(fs[f].mode) THEN Some(f) ELSE None

RECURSIVE find_top(_, _)
find_top(fs, f) ==
    IF Mode_is_top(fs[f].mode) THEN Some(f)
    ELSE IF fs[f].parent = None THEN None
    ELSE find_top(fs, fs[f].parent.some)

\* a find_with_sid that looks at the frame itself only
find_with_sid_shallow(fs, f, sid) ==
    IF fs[f].sid = sid THEN Some(f) ELSE None

RECURSIVE find_with_sid(_, _, _), find_with_sid_among(_, _, _)
find_with_sid(fs, f, sid) ==
    IF fs[f].sid = sid THEN Some(f)
    ELSE find_with_sid_among(fs, time_iter(fs, f), sid)

\* the loop of find_with_sid over the frames time_iter has still to yield
find_with_sid_among(fs, subsurfaces, sid) ==
    IF subsurfaces = <<>> THEN None
    ELSE LET result == find_with_sid(fs, Head(subsurfaces), sid) IN
         IF result # None THEN result
         ELSE find_with_sid_among(fs, Tail(subsurfaces), sid)

\* the directions of qualia::Direction that Searching tells apart
Directions == {"North", "East", "South", "West", "Up"}

\* the place of the frame f among the spatial children of its parent
place_in_space(fs, f) ==
    LET siblings == space_iter(fs, fs[f].parent.some) IN
    CHOOSE i \in DOMAIN siblings : siblings[i] = f

\* Frame::get_prev_space, Frame::get_next_space: the spatial neighbours
get_prev_space(fs, f) ==
    IF fs[f].parent = None \/ place_in_space(fs, f) = 1 THEN None
    ELSE Some(space_iter(fs, fs[f].parent.some)[place_in_space(fs, f) - 1])

get_next_space(fs, f) ==
    IF fs[f].parent = None \/ place_in_space(fs, f) = count_children(fs, fs[f].parent.some)
    THEN None
    ELSE Some(space_iter(fs, fs[f].parent.some)[place_in_space(fs, f) + 1])

RECURSIVE find_contiguous(_, _, _, _)

\* a find_contiguous that asks for the parent before it looks at the distance
find_contiguous_of_parented(fs, f, direction, distance) ==
    IF fs[f].parent = None THEN None
    ELSE IF distance = 0 THEN Some(f)
    ELSE find_contiguous(fs, fs[f].parent.some, direction, distance - 1)

\* a find_contiguous for which every step, the climb as well, uses up distance
find_contiguous_nearer(fs, f, direction, distance) ==
    IF distance = 0 THEN Some(f)
    ELSE IF fs[f].parent = None THEN None
    ELSE LET parent == fs[f].parent.some
             farther ==
                 IF fs[parent].geometry = "Vertical"
                 THEN IF direction = "North" THEN get_prev_space(fs, f)
                      ELSE IF direction = "South" THEN get_next_space(fs, f)
                      ELSE None
                 ELSE IF fs[parent].geometry = "Horizontal"
                 THEN IF direction = "West" THEN get_prev_space(fs, f)
                      ELSE IF direction = "East" THEN get_next_space(fs, f)
                      ELSE None
                 ELSE None
             frame == IF farther = None THEN fs[f].parent ELSE farther
         IN  IF Mode_is_top(fs[frame.some].mode) THEN None
             ELSE find_contiguous(fs, frame.some, direction, distance - 1)

find_contiguous(fs, f, direction, distance) ==
    IF distance = 0 THEN Some(f)
    ELSE IF fs[f].parent = None THEN None
    ELSE LET parent == fs[f].parent.some
             farther ==
                 IF fs[parent].geometry = "Vertical"
                 THEN IF direction = "North" THEN get_prev_space(fs, f)
                      ELSE IF direction = "South" THEN get_next_space(fs, f)
                      ELSE None
                 ELSE IF fs[parent].geometry = "Horizontal"
                 THEN IF direction = "West" THEN get_prev_space(fs, f)
                      ELSE IF direction = "East" THEN get_next_space(fs, f)
                      ELSE None
                 ELSE None
             new_distance ==
                 IF farther # None \/ direction = "Up" THEN distance - 1 ELSE distance
             frame == IF farther = None THEN fs[f].parent ELSE farther
         IN  IF frame = None THEN None
             ELSE IF Mode_is_top(fs[frame.some].mode) THEN None
             ELSE find_contiguous(fs, frame.some, direction, new_distance)

----------------------------------------------------------------------------
(* Packing (frames::packing).  `t` is the arena together with the          *)
(* SurfaceAccess: the coordinator and the signals it has emitted.          *)

Packed(fs, c, ev) == [fs |-> fs, co |-> c, ev |-> ev]

RECURSIVE move_with_contents(_, _, _), move_each_with_contents(_, _, _)
move_with_contents(fs, f, vector) ==
    LET new_position == <<fs[f].pos[1] + vector[1], fs[f].pos[2] + vector[2]>> IN
    move_each_with_contents([fs EXCEPT ![f].pos = new_position], space_iter(fs, f), vector)

\* the loop of move_with_contents over the frames space_iter has still to yield
move_each_with_contents(fs, subframes, vector) ==
    IF subframes = <<>> THEN fs
    ELSE move_each_with_contents(move_with_contents(fs, Head(subframes), vector),
                                 Tail(subframes), vector)

\* a set_position that leaves the contents where they are
set_position_alone(fs, f, pos) == [fs EXCEPT ![f].pos = pos]

set_position(fs, f, pos) ==
    LET vector == <<pos[1] - fs[f].pos[1], pos[2] - fs[f].pos[2]>> IN
    move_with_contents(fs, f, vector)

RECURSIVE set_size(_, _, _), set_size_each(_, _, _, _), homogenize(_, _),
          homogenize_each(_, _, _, _, _)

\* a set_size that resizes the subframes and forgets the frame itself
set_size_of_subframes(t, f, size) ==
    LET r == reconfigure(t.co, t.fs[f].sid, size, MAXIMIZED) IN
    set_size_each(Packed(t.fs, r.co, t.ev \o r.ev), space_iter(t.fs, f), size, "both")

set_size(t, f, size) ==
    LET old_size == t.fs[f].size
        r == reconfigure(t.co, t.fs[f].sid, size, MAXIMIZED)
        t1 == Packed([t.fs EXCEPT ![f].size = size], r.co, t.ev \o r.ev)
        geometry == t.fs[f].geometry
    IN  CASE geometry = "Horizontal" ->
                 IF old_size[1] = size[1]
                 THEN set_size_each(t1, space_iter(t1.fs, f), size, "height")
                 ELSE homogenize(t1, f)
          [] geometry = "Vertical" ->
                 IF old_size[2] = size[2]
                 THEN set_size_each(t1, space_iter(t1.fs, f), size, "width")
                 ELSE homogenize(t1, f)
          [] OTHER -> set_size_each(t1, space_iter(t1.fs, f), size, "both")

\* the loops of set_size over the frames space_iter has still to yield: each
\* takes the height, the width or both from size
set_size_each(t, subframes, size, dimension) ==
    IF subframes = <<>> THEN t
    ELSE LET frame == Head(subframes)
             frame_size ==
                 CASE dimension = "height" -> <<t.fs[frame].size[1], size[2]>>
                   [] dimension = "width" -> <<size[1], t.fs[frame].size[2]>>
                   [] OTHER -> size
         IN  set_size_each(set_size(t, frame, frame_size), Tail(subframes), size, dimension)

homogenize(t, f) ==
    LET len == count_children(t.fs, f)
        own == t.fs[f].size
        geometry == t.fs[f].geometry
        pos == t.fs[f].pos
    IN  IF len < 1 THEN t
        ELSE CASE geometry = "Stacked" ->
                      homogenize_each(t, space_iter(t.fs, f), own, pos, <<0, 0>>)
               [] geometry = "Vertical" ->
                      homogenize_each(t, space_iter(t.fs, f), <<own[1], own[2] \div len>>,
                                      pos, <<0, own[2] \div len>>)
               [] geometry = "Horizontal" ->
                      homogenize_each(t, space_iter(t.fs, f), <<own[1] \div len, own[2]>>,
                                      pos, <<own[1] \div len, 0>>)
               [] OTHER -> t

\* the loop of homogenize over the frames space_iter has still to yield
homogenize_each(t, subframes, size, pos, increment) ==
    IF subframes = <<>> THEN t
    ELSE LET frame == Head(subframes)
             t1 == set_size(t, frame, size)
             t2 == [t1 EXCEPT !.fs = set_position(@, frame, pos)]
         IN  homogenize_each(t2, Tail(subframes), size,
                             <<pos[1] + increment[1], pos[2] + increment[2]>>, increment)

relax(t, f) == homogenize(t, f)

remove_self(t, f) ==
    IF t.fs[f].parent = None THEN t
    ELSE relax([t EXCEPT !.fs = Frame_remove(@, f)], t.fs[f].parent.some)

----------------------------------------------------------------------------
(* Settling (frames::settling) *)

\* Frame::settle: last in spatial order, first in temporal order, and the
\* parent is relaxed
settle(t, f, target) == relax([t EXCEPT !.fs = Frame_append(@, target, f)], target)

----------------------------------------------------------------------------
(* SurfaceHistory (exhibitor::surface_history) *)

SurfaceHistory_new == <<>>
SurfaceHistory_add(history, sid) == <<sid>> \o Without(history, sid)
SurfaceHistory_remove(history, sid) == Without(history, sid)

----------------------------------------------------------------------------
(* Compositor (exhibitor::compositor) *)

\* a call that unwinds: Option::unwrap on None
Unwound == [unwound |-> TRUE]

\* a call that returns, the heap of frames and the Compositor it leaves
\* behind, and the signals the Coordinator has emitted for it
Returned(fs, comp, c, ev) == [frames |-> fs, compositor |-> comp, co |-> c, ev |-> ev]

\* Compositor::new: the root is the only frame
Compositor_new == [history |-> SurfaceHistory_new, root |-> 1, selection |-> None]

select(comp, frame) == [comp EXCEPT !.selection = frame]

\* the selection before Option::unwrap
get_selection(comp) == comp.selection

choose_target(fs, comp, surface) ==
    IF get_selection(comp) = None THEN Unwound
    ELSE IF is_valid(surface.parent_sid)
    THEN LET target == find_buildable(fs, get_selection(comp).some) IN
         IF target = None THEN Unwound
         ELSE [target |-> target.some, geometry |-> "Stacked", selection |-> TRUE]
    ELSE LET target == find_top(fs, get_selection(comp).some) IN
         IF target = None THEN Unwound
         ELSE [target |-> target.some, geometry |-> "Vertical", selection |-> TRUE]

\* a try_get_surface that goes on with a surface of its own making
try_get_surface_or_default(c, sid) == Some(Surface_get_info(sid, Surface_new(sid)))

\* try_get_surface!: None makes the caller return
try_get_surface(c, sid) == get_surface(c, sid)

\* a manage_surface that writes the surface at the end of the history
manage_surface_logging(fs, comp, c, sid) ==
    LET surface == try_get_surface(c, sid) IN
    IF surface = None THEN Returned(fs, comp, c, <<>>)
    ELSE LET decision == choose_target(fs, comp, surface.some) IN
         IF decision = Unwound THEN Unwound
         ELSE LET frame == Len(fs) + 1
                  leaf == Frame_new_leaf(sid, decision.geometry)
                  t == settle(Packed(Append(fs, leaf), c, <<>>), frame, decision.target)
                  selected == IF decision.selection THEN select(comp, Some(frame)) ELSE comp
                  n == notify(t.co)
              IN  Returned(t.fs, [selected EXCEPT !.history = Append(@, sid)],
                           n.co, t.ev \o n.ev)

manage_surface(fs, comp, c, sid) ==
    LET surface == try_get_surface(c, sid) IN
    IF surface = None THEN Returned(fs, comp, c, <<>>)
    ELSE LET decision == choose_target(fs, comp, surface.some) IN
         IF decision = Unwound THEN Unwound
         ELSE LET frame == Len(fs) + 1
                  leaf == Frame_new_leaf(sid, decision.geometry)
                  t == settle(Packed(Append(fs, leaf), c, <<>>), frame, decision.target)
                  selected == IF decision.selection THEN select(comp, Some(frame)) ELSE comp
                  n == notify(t.co)
              IN  Returned(t.fs,
                           [selected EXCEPT !.history = SurfaceHistory_add(@, sid)],
                           n.co, t.ev \o n.ev)

\* Exhibitor::on_surface_ready
on_surface_ready(fs, comp, c, sid) == manage_surface(fs, comp, c, sid)

\* Exhibitor::on_surface_destroyed: the frame of the surface leaves the tree
\* and the surface leaves the history
on_surface_destroyed(fs, comp, c, sid) ==
    LET found == find_with_sid(fs, comp.root, sid)
        t == IF found = None THEN Packed(fs, c, <<>>)
             ELSE remove_self(Packed(fs, c, <<>>), found.some)
    IN  Returned(t.fs, [comp EXCEPT !.history = SurfaceHistory_remove(@, sid)], t.co, t.ev)

----------------------------------------------------------------------------
(* State *)

VARIABLES
    coord,      \* the InnerCoordinator behind Coordinator.inner
    emitted,    \* the events the last call handed to Signaler::emit, in order
    returned,   \* the ids create_surface has returned so far, in call order
    returned_views, \* the ids create_memory_view has returned so far, in call order
    holding,    \* the threads that hold the mutex Coordinator.inner
    todo,       \* per thread: the packages its running call has still to emit
    lin,        \* the number of times Coordinator.inner was locked
    ndirect,    \* the number of signals emitted without the Coordinator
    signaler,   \* the InnerSignaler behind Signaler.inner, which all clones share
    fifo,       \* per receiver: the packages sent and not yet received
    received,   \* per receiver: the packages it has received, in order
    unstored,   \* per thread: the call whose method has emitted but not yet stored
    observed,   \* per receiver: what its handler last read from the Coordinator
    subs,       \* the <<signal id, receiver>> pairs subscribe was called with
    regs,       \* the receivers register was called with, in call order
    life,       \* the storages handed over so far, and what became of their pools
    frames,     \* the heap of Frame nodes
    compositor, \* the Compositor of the Exhibitor
    unwound,    \* whether the thread of the Exhibitor has unwound
    handled,    \* the last call to the Exhibitor or to a frame, and what it found
    dropped,    \* the packages the queue of the Exhibitor has lost
    locks       \* per thread: the mutexes it holds and the steps its call has still to take

\* a thread that is in no method, a handler that has read nothing
NoCall == [op |-> "none", args |-> <<>>]
NoQuery == [n |-> 0]

\* no thread holds a mutex or is in a call
NoLocks == [t \in Threads |-> [plan |-> <<>>, held |-> {}, calls |-> 0]]

\* no storage handed over yet
NoLife == [handed |-> 0, destroyed |-> {}, replaced |-> {}, overwritten |-> {}, outlived |-> {}]

\* nothing handled yet
NoHandled ==
    [op |-> "none", sid |-> InvalidSid, frames |-> <<>>, compositor |-> Compositor_new,
     known |-> FALSE, parent_sid |-> InvalidSid, ev |-> <<>>, calls |-> 0]

evars == <<frames, compositor, unwound, handled, dropped, locks>>
gvars == <<subs, regs, life, evars>>
xvars == <<unstored, observed, gvars>>
cvars == <<holding, todo, lin, ndirect, signaler, fifo, received, xvars>>
vars == <<coord, emitted, returned, returned_views, holding, todo, lin, ndirect, signaler, fifo, received,
          xvars>>

InitModules ==
    /\ holding = {}
    /\ todo = [t \in Threads |-> <<>>]
    /\ lin = 0
    /\ ndirect = 0
    /\ fifo = [r \in Receivers |-> <<>>]
    /\ received = [r \in Receivers |-> <<>>]
    /\ unstored = [t \in Threads |-> NoCall]
    /\ observed = [r \in Receivers |-> NoQuery]
    /\ life = NoLife

\* Exhibitor::new: a Compositor that has handled nothing
InitExhibitor ==
    /\ frames = <<Frame_new_root>>
    /\ compositor = Compositor_new
    /\ unwound = FALSE
    /\ handled = NoHandled
    /\ dropped = {}
    /\ locks = NoLocks

InitThreads == InitModules /\ InitExhibitor

Init ==
    /\ coord = InnerCoordinator_new
    /\ emitted = <<>>
    /\ returned = <<>>
    /\ returned_views = <<>>
    /\ signaler = Signaler_new
    /\ subs = {}
    /\ regs = <<>>
    /\ InitThreads

----------------------------------------------------------------------------
(* Calls of the public Coordinator methods.  Each locks Coordinator.inner, *)
(* runs the InnerCoordinator method of the same name and unlocks.         *)

Call(op, args) == [op |-> op, args |-> args]

\* the surface ids a call can name: every registered id, the invalid id and
\* one id that was never registered
Sids(c) == DOMAIN c.surfaces \cup {InvalidSid, c.last_surface_id + 1} \cup (1 .. c.last_surface_id)
Mpids(c) == 1 .. (c.last_memory_pool_id + 1)
Mvids(c) == 1 .. (c.last_memory_view_id + 1)

\* P holds of every call that can be made on the coordinator c
AllCalls(c, P(_)) ==
    /\ \A op \in {"notify", "create_surface", "create_pool_from_memory",
                  "create_pool_from_buffer"} : P(Call(op, <<>>))
    /\ \A op \in {"set_keyboard_focus", "detach_surface", "destroy_surface",
                  "commit_surface", "unrelate_surface", "set_surface_as_cursor"} :
           \A sid \in Sids(c) : P(Call(op, <<sid>>))
    /\ \A op \in {"set_pointer_focus", "set_surface_offset", "set_surface_relative_position"} :
           \A sid \in Sids(c), pos \in Positions : P(Call(op, <<sid, pos>>))
    /\ \A sid \in Sids(c), size \in Sizes :
           P(Call("set_surface_requested_size", <<sid, size>>))
    /\ \A op \in {"destroy_memory_pool", "replace_memory_pool", "create_memory_view"} :
           \A mpid \in Mpids(c) : P(Call(op, <<mpid>>))
    /\ \A mvid \in Mvids(c) : P(Call("destroy_memory_view", <<mvid>>))
    /\ \A mvid \in Mvids(c), sid \in Sids(c) : P(Call("attach", <<mvid, sid>>))
    /\ \A op \in {"show_surface", "hide_surface"} :
           \A sid \in Sids(c), reason \in ShowReasons : P(Call(op, <<sid, reason>>))
    /\ \A sid \in Sids(c), parent_sid \in Sids(c) :
           P(Call("relate_surfaces", <<sid, parent_sid>>))
    /\ \A sid \in Sids(c), size \in Sizes, flags \in {REGULAR, MAXIMIZED} :
           P(Call("reconfigure", <<sid, size, flags>>))

\* the result of a call on the coordinator c
Apply(c, k) ==
    CASE k.op = "notify" -> notify(c)
      [] k.op = "set_keyboard_focus" -> set_keyboard_focus(c, k.args[1])
      [] k.op = "set_pointer_focus" -> set_pointer_focus(c, k.args[1], k.args[2])
      [] k.op = "create_pool_from_memory" -> create_pool_from_memory(c, "mapped")
      [] k.op = "create_pool_from_buffer" -> create_pool_from_buffer(c, "buffer")
      [] k.op = "destroy_memory_pool" -> destroy_memory_pool(c, k.args[1])
      [] k.op = "replace_memory_pool" -> replace_memory_pool(c, k.args[1], "remapped")
      [] k.op = "create_memory_view" -> create_memory_view(c, k.args[1])
      [] k.op = "destroy_memory_view" -> destroy_memory_view(c, k.args[1])
      [] k.op = "create_surface" -> create_surface(c)
      [] k.op = "detach_surface" -> detach_surface(c, k.args[1])
      [] k.op = "destroy_surface" -> destroy_surface(c, k.args[1])
      [] k.op = "attach" -> attach(c, k.args[1], k.args[2])
      [] k.op = "commit_surface" -> Coordinator_commit_surface(c, k.args[1])
      [] k.op = "show_surface" -> show_surface(c, k.args[1], k.args[2])
      [] k.op = "hide_surface" -> hide_surface(c, k.args[1], k.args[2])
      [] k.op = "set_surface_offset" -> set_surface_offset(c, k.args[1], k.args[2])
      [] k.op = "set_surface_requested_size" ->
             set_surface_requested_size(c, k.args[1], k.args[2])
      [] k.op = "set_surface_relative_position" ->
             set_surface_relative_position(c, k.args[1], k.args[2])
      [] k.op = "relate_surfaces" -> relate_surfaces(c, k.args[1], k.args[2])
      [] k.op = "unrelate_surface" -> unrelate_surface(c, k.args[1])
      [] k.op = "set_surface_as_cursor" -> set_surface_as_cursor(c, k.args[1])
      [] k.op = "reconfigure" -> reconfigure(c, k.args[1], k.args[2], k.args[3])

\* the surface ids a call names
NamedSids(k) ==
    CASE k.op \in {"set_keyboard_focus", "set_pointer_focus", "detach_surface",
                   "destroy_surface", "commit_surface", "show_surface", "hide_surface",
                   "set_surface_offset", "set_surface_requested_size",
                   "set_surface_relative_position", "unrelate_surface",
                   "set_surface_as_cursor", "reconfigure"} -> {k.args[1]}
      [] k.op = "attach" -> {k.args[2]}
      [] k.op = "relate_surfaces" -> {k.args[1], k.args[2]}
      [] OTHER -> {}

\* a call made while no other thread runs and no receiver is subscribed:
\* Signaler::emit finds no sender and the queues stay as they are
Do(k) ==
    LET r == Apply(coord, k) IN
    /\ coord' = r.co
    /\ emitted' = r.ev
    /\ returned' = IF k.op = "create_surface" THEN Append(returned, r.ret) ELSE returned
    /\ returned_views' = IF k.op = "create_memory_view" /\ r.ret # None
                         THEN Append(returned_views, r.ret.some)
                         ELSE returned_views
    /\ UNCHANGED cvars

Op_notify == Do(Call("notify", <<>>))

Op_set_keyboard_focus(S) == \E sid \in S : Do(Call("set_keyboard_focus", <<sid>>))

Op_set_pointer_focus(S) ==
    \E sid \in S, pos \in Positions : Do(Call("set_pointer_focus", <<sid, pos>>))

Op_create_pool_from_memory ==
    /\ coord.last_memory_pool_id < MaxPools
    /\ Do(Call("create_pool_from_memory", <<>>))

Op_create_pool_from_buffer ==
    /\ coord.last_memory_pool_id < MaxPools
    /\ Do(Call("create_pool_from_buffer", <<>>))

Op_destroy_memory_pool == \E mpid \in PoolArgs : Do(Call("destroy_memory_pool", <<mpid>>))

Op_replace_memory_pool == \E mpid \in PoolArgs : Do(Call("replace_memory_pool", <<mpid>>))

Op_create_memory_view ==
    /\ coord.last_memory_view_id < MaxViews
    /\ \E mpid \in PoolArgs : Do(Call("create_memory_view", <<mpid>>))

Op_destroy_memory_view == \E mvid \in ViewArgs : Do(Call("destroy_memory_view", <<mvid>>))

Op_create_surface(bound) ==
    /\ coord.last_surface_id < bound
    /\ Do(Call("create_surface", <<>>))

Op_detach_surface(S) == \E sid \in S : Do(Call("detach_surface", <<sid>>))

Op_destroy_surface(S) == \E sid \in S : Do(Call("destroy_surface", <<sid>>))

Op_attach(S) == \E mvid \in ViewArgs, sid \in S : Do(Call("attach", <<mvid, sid>>))

Op_commit_surface(S) == \E sid \in S : Do(Call("commit_surface", <<sid>>))

Op_show_surface(S, R) ==
    \E sid \in S, reason \in R : Do(Call("show_surface", <<sid, reason>>))

Op_hide_surface(S, R) ==
    \E sid \in S, reason \in R : Do(Call("hide_surface", <<sid, reason>>))

Op_set_surface_relative_position(S) ==
    \E sid \in S : Do(Call("set_surface_relative_position", <<sid, <<1, 1>> >>))

Op_relate_surfaces(S) ==
    \E sid \in S, parent_sid \in S :
        /\ parent_sid \in DOMAIN coord.surfaces
              => Len(coord.surfaces[parent_sid].satellites) < MaxSatellites
        /\ Do(Call("relate_surfaces", <<sid, parent_sid>>))

Op_unrelate_surface(S) == \E sid \in S : Do(Call("unrelate_surface", <<sid>>))

Op_set_surface_as_cursor(S) == \E sid \in S : Do(Call("set_surface_as_cursor", <<sid>>))

Op_reconfigure(S) ==
    \E sid \in S, size \in Sizes, flags \in {REGULAR, MAXIMIZED} :
        Do(Call("reconfigure", <<sid, size, flags>>))

----------------------------------------------------------------------------
(* Spec: the life of a surface: creation, show reasons, relation,          *)
(* destruction.                                                            *)

Next ==
    \/ Op_notify
    \/ Op_create_surface(MaxSurfaces)
    \/ Op_detach_surface(SidArgs(MaxSurfaces))
    \/ Op_destroy_surface(SidArgs(MaxSurfaces))
    \/ Op_show_surface(SidArgs(MaxSurfaces), ShowReasons)
    \/ Op_hide_surface(SidArgs(MaxSurfaces), ShowReasons)
    \/ Op_relate_surfaces(SidArgs(MaxSurfaces))
    \/ Op_set_surface_as_cursor(SidArgs(MaxSurfaces))

Spec == Init /\ [][Next]_vars

(* SpecBuf: buffers of a surface: attach and commit against the show reasons *)

NextBuf ==
    \/ Op_create_pool_from_memory
    \/ Op_create_memory_view
    \/ Op_create_surface(MaxBufSurfaces)
    \/ Op_destroy_surface(SidArgs(MaxBufSurfaces))
    \/ Op_attach(SidArgs(MaxBufSurfaces))
    \/ Op_commit_surface(SidArgs(MaxBufSurfaces))
    \/ Op_show_surface(SidArgs(MaxBufSurfaces), ShowReasons)
    \/ Op_hide_surface(SidArgs(MaxBufSurfaces), ShowReasons)

SpecBuf == Init /\ [][NextBuf]_vars

(* SpecIds: surface identifiers over several creations and destructions *)

NextIds ==
    \/ Op_create_surface(MaxIds)
    \/ Op_destroy_surface(SidArgs(MaxIds))
    \/ Op_show_surface(SidArgs(MaxIds), ShowReasons)
    \/ Op_hide_surface(SidArgs(MaxIds), ShowReasons)

SpecIds == Init /\ [][NextIds]_vars

(* SpecRel: relations between surfaces *)

NextRel ==
    \/ Op_create_surface(MaxRelSurfaces)
    \/ Op_destroy_surface(SidArgs(MaxRelSurfaces))
    \/ Op_show_surface(SidArgs(MaxRelSurfaces), {IN_SHELL})
    \/ Op_relate_surfaces(SidArgs(MaxRelSurfaces))
    \/ Op_unrelate_surface(SidArgs(MaxRelSurfaces))
    \/ Op_set_surface_relative_position(SidArgs(MaxRelSurfaces))

SpecRel == Init /\ [][NextRel]_vars

(* SpecMem: memory pools and views *)

NextMem ==
    \/ Op_create_pool_from_memory
    \/ Op_create_pool_from_buffer
    \/ Op_destroy_memory_pool
    \/ Op_replace_memory_pool
    \/ Op_create_memory_view
    \/ Op_destroy_memory_view
    \/ Op_create_surface(MaxSurfaces)
    \/ Op_attach(SidArgs(MaxSurfaces))
    \/ Op_commit_surface(SidArgs(MaxSurfaces))

SpecMem == Init /\ [][NextMem]_vars

(* SpecAux: focus and reconfiguration *)

NextAux ==
    \/ Op_create_surface(MaxSurfaces)
    \/ Op_destroy_surface(SidArgs(MaxSurfaces))
    \/ Op_set_keyboard_focus(SidArgs(MaxSurfaces))
    \/ Op_set_pointer_focus(SidArgs(MaxSurfaces))
    \/ Op_reconfigure(SidArgs(MaxSurfaces))

SpecAux == Init /\ [][NextAux]_vars

(* SpecConc: threads calling the Coordinator at the same time, the Signaler  *)
(* and the receivers of the modules.                                       *)

\* a lock that does not keep a second thread out
CanLock_always(owners) == TRUE

\* Mutex::lock on Coordinator.inner returns when no thread holds the mutex
CanLock(owners) == owners = {}

\* a wrapper that lets go of the mutex before the signals are emitted
ScopeEnded_before_emit(pending) == TRUE

\* the guard `mine` is dropped at the end of the wrapper, after the
\* InnerCoordinator method has returned and so has emitted all its signals
ScopeEnded(pending) == pending = <<>>

\* set_keyboard_focus, set_pointer_focus and destroy_surface emit their signal
\* first and store afterwards; the other methods emit after they have stored
StoresAfterEmit(op) == op \in {"set_keyboard_focus", "set_pointer_focus", "destroy_surface"}

\* the calls made one after the other on the coordinator c
RECURSIVE Run(_, _)
Run(c, calls) ==
    IF calls = <<>> THEN c ELSE Run(Apply(c, Head(calls)).co, Tail(calls))

\* a client has created a pool, a view and a surface, has given the surface
\* its place in the shell and has attached the view
SetUp ==
    Run(InnerCoordinator_new,
        <<Call("create_pool_from_memory", <<>>), Call("create_memory_view", <<1>>),
          Call("create_surface", <<>>), Call("show_surface", <<1, IN_SHELL>>),
          Call("attach", <<1, 1>>)>>)

\* the signals the second receiver is subscribed to
ObserverSignals == <<"NOTIFY">>

\* the client has set up its surface and the modules have subscribed
InitBus ==
    /\ coord = SetUp
    /\ emitted = <<>>
    /\ returned = <<1>>
    /\ returned_views = <<1>>
    /\ signaler = SubscribeAll(
                      SubscribeAll(Signaler_register(Signaler_new, "exhibitor"),
                                   ExhibitorSignals, "exhibitor"),
                      ObserverSignals, "observer")
    /\ subs = {<<ExhibitorSignals[i], "exhibitor">> : i \in DOMAIN ExhibitorSignals}
                  \cup {<<ObserverSignals[i], "observer">> : i \in DOMAIN ObserverSignals}
    /\ regs = <<"exhibitor">>

InitConc == InitBus /\ InitThreads

\* thread t calls a public method: it locks Coordinator.inner and runs the
\* InnerCoordinator method, which leaves its signals to be emitted
Conc_call(t, k) ==
    LET r == Apply(coord, k) IN
    /\ t \notin holding
    /\ todo[t] = <<>>
    /\ unstored[t] = NoCall
    /\ lin < MaxConcCalls
    /\ CanLock(holding)
    /\ holding' = holding \cup {t}
    /\ lin' = lin + 1
    /\ IF StoresAfterEmit(k.op) /\ r.ev # <<>>
       THEN coord' = coord /\ unstored' = [unstored EXCEPT ![t] = k]
       ELSE coord' = r.co /\ unstored' = unstored
    /\ emitted' = r.ev
    /\ todo' = [todo EXCEPT ![t] = [i \in 1 .. Len(r.ev) |-> Package(r.ev[i], lin + 1, i, k.op, t)]]
    /\ UNCHANGED <<returned, returned_views, ndirect, signaler, fifo, received, observed, gvars>>

\* the method of thread t has emitted its signal and now stores
Conc_store ==
    \E t \in Threads :
        /\ unstored[t] # NoCall
        /\ todo[t] = <<>>
        /\ coord' = Apply(coord, unstored[t]).co
        /\ unstored' = [unstored EXCEPT ![t] = NoCall]
        /\ UNCHANGED <<emitted, returned, returned_views, holding, todo, lin, ndirect, signaler, fifo,
                       received, observed, gvars>>

Conc_notify == \E t \in Threads : Conc_call(t, Call("notify", <<>>))

Conc_commit_surface ==
    \E t \in Threads, sid \in DOMAIN coord.surfaces :
        Conc_call(t, Call("commit_surface", <<sid>>))

Conc_show_surface ==
    \E t \in Threads, sid \in DOMAIN coord.surfaces :
        Conc_call(t, Call("show_surface", <<sid, IN_SHELL>>))

Conc_hide_surface ==
    \E t \in Threads, sid \in DOMAIN coord.surfaces :
        Conc_call(t, Call("hide_surface", <<sid, IN_SHELL>>))

\* Signaler::emit of the next signal of the call thread t is running
Conc_emit ==
    \E t \in Threads, policy \in [Receivers -> Policies] :
        /\ todo[t] # <<>>
        /\ LET e == Signaler_emit(signaler, fifo, Head(todo[t]), policy) IN
               signaler' = e.signaler /\ fifo' = e.queues
        /\ todo' = [todo EXCEPT ![t] = Tail(@)]
        /\ UNCHANGED <<coord, emitted, returned, returned_views, holding, lin, ndirect, received, xvars>>

\* the wrapper returns and drops the guard
Conc_unlock ==
    \E t \in Threads :
        /\ t \in holding
        /\ ScopeEnded(todo[t])
        /\ unstored[t] = NoCall
        /\ holding' = holding \ {t}
        /\ UNCHANGED <<coord, emitted, returned, returned_views, todo, lin, ndirect, signaler, fifo, received,
                       xvars>>

\* a module emits PAGE_FLIP on its clone of the Signaler, without the Coordinator
Module_emit ==
    \E policy \in [Receivers -> Policies] :
        /\ ndirect < MaxDirect
        /\ ndirect' = ndirect + 1
        /\ LET e == Signaler_emit(signaler, fifo,
                                   Package(PageFlip, 0, ndirect + 1, "emit", "device"), policy) IN
               signaler' = e.signaler /\ fifo' = e.queues
        /\ UNCHANGED <<coord, emitted, returned, returned_views, holding, todo, lin, received, xvars>>

\* bridge::Receiver::recv: a module takes the next package off its queue
Receiver_recv ==
    \E r \in Receivers :
        /\ fifo[r] # <<>>
        /\ received' = [received EXCEPT ![r] = Append(@, Head(fifo[r]))]
        /\ fifo' = [fifo EXCEPT ![r] = Tail(@)]
        /\ UNCHANGED <<coord, emitted, returned, returned_views, holding, todo, lin, ndirect, signaler, xvars>>

NextConc ==
    \/ Conc_notify
    \/ Conc_commit_surface
    \/ Conc_show_surface
    \/ Conc_hide_surface
    \/ Conc_emit
    \/ Conc_unlock
    \/ Module_emit
    \/ Receiver_recv

SpecConc == InitConc /\ [][NextConc]_vars

(* SpecObs: modules that handle a signal by asking the Coordinator *)

Conc_set_keyboard_focus ==
    \E t \in Threads, sid \in Sids(coord) :
        Conc_call(t, Call("set_keyboard_focus", <<sid>>))

Conc_destroy_surface ==
    \E t \in Threads, sid \in DOMAIN coord.surfaces :
        Conc_call(t, Call("destroy_surface", <<sid>>))

\* the handler of the package a module has just received calls
\* get_keyboard_focused_sid and get_surface; each locks Coordinator.inner
Handler_query ==
    \E r \in Receivers :
        /\ observed[r].n < Len(received[r])
        /\ CanLock(holding)
        /\ observed' = [observed EXCEPT ![r] =
                           [n |-> Len(received[r]),
                            lin |-> lin,
                            kfsid |-> get_keyboard_focused_sid(coord),
                            registered |-> {sid \in Sids(coord) : get_surface(coord, sid) # None}]]
        /\ UNCHANGED <<coord, emitted, returned, returned_views, holding, todo, lin, ndirect, signaler, fifo,
                       received, unstored, gvars>>

NextObs ==
    \/ Conc_set_keyboard_focus
    \/ Conc_destroy_surface
    \/ Conc_emit
    \/ Conc_store
    \/ Conc_unlock
    \/ Receiver_recv
    \/ Handler_query

SpecObs == InitConc /\ [][NextObs]_vars

(* SpecSig: the Signaler on its own: modules subscribe and register on their *)
(* clones, emit and terminate, and their receivers take the events.        *)

\* the signal ids the modules use
SigIds == {"NOTIFY", "PAGE_FLIP"}

\* the Package of the n-th call of a module
SigPackage(id, n) == Package(Ev(id, <<>>), 0, n, "emit", "device")

InitSig == Init

Sig_subscribe ==
    \E id \in SigIds, r \in Receivers :
        /\ signaler' = Signaler_subscribe(signaler, id, r)
        /\ subs' = subs \cup {<<id, r>>}
        /\ UNCHANGED <<coord, emitted, returned, returned_views, holding, todo, lin, ndirect, fifo, received,
                       unstored, observed, regs, life, evars>>

Sig_register ==
    \E r \in Receivers :
        /\ Len(regs) < MaxRegistrations
        /\ signaler' = Signaler_register(signaler, r)
        /\ regs' = Append(regs, r)
        /\ UNCHANGED <<coord, emitted, returned, returned_views, holding, todo, lin, ndirect, fifo, received,
                       unstored, observed, subs, life, evars>>

Sig_emit ==
    \E id \in SigIds, policy \in [Receivers -> Policies] :
        /\ ndirect < MaxSigCalls
        /\ ndirect' = ndirect + 1
        /\ LET e == Signaler_emit(signaler, fifo, SigPackage(id, ndirect + 1), policy) IN
               signaler' = e.signaler /\ fifo' = e.queues
        /\ emitted' = <<Ev(id, <<>>)>>
        /\ UNCHANGED <<coord, returned, returned_views, holding, todo, lin, received, xvars>>

Sig_terminate ==
    \E policy \in [Receivers -> Policies] :
        /\ ndirect < MaxSigCalls
        /\ ndirect' = ndirect + 1
        /\ fifo' = Signaler_terminate(signaler, fifo, policy)
        /\ UNCHANGED <<coord, emitted, returned, returned_views, holding, todo, lin, signaler, received, xvars>>

NextSig ==
    \/ Sig_subscribe
    \/ Sig_register
    \/ Sig_emit
    \/ Sig_terminate
    \/ Receiver_recv

SpecSig == InitSig /\ [][NextSig]_vars

(* SpecLife: the storage of the pools.  Every MappedMemory or Buffer a     *)
(* client hands over is a new storage; pools, views and the buffers of    *)
(* surfaces refer to it, and it is released with the last reference.      *)

\* the n-th storage a client hands over
Memory(n) == "m" \o ToString(n)

\* the storages the pools of the registry refer to
PoolStorages(c) == {c.memory_pools[mpid].storage : mpid \in DOMAIN c.memory_pools}

\* the storages views refer to: the registered views and the copies of views
\* that surfaces hold as pending or committed buffer
ViewStorages(c) ==
    ({c.memory_views[mvid].storage : mvid \in DOMAIN c.memory_views}
        \cup {c.surfaces[sid].pending_buffer.storage : sid \in DOMAIN c.surfaces}
        \cup {c.surfaces[sid].buffer.storage : sid \in DOMAIN c.surfaces})
    \ {NoView.storage}

\* a storage is live as long as a pool or a view refers to it
Live(c, storage) == storage \in PoolStorages(c) \cup ViewStorages(c)

\* the storage of the pool mpid, if there is one
StorageOf(c, mpid) ==
    IF mpid \in DOMAIN c.memory_pools THEN {c.memory_pools[mpid].storage} ELSE {}

Life_step(r, next_life) ==
    /\ coord' = r.co
    /\ emitted' = r.ev
    /\ life' = next_life
    /\ UNCHANGED <<returned, returned_views, holding, todo, lin, ndirect, signaler, fifo,
                   received, unstored, observed, subs, regs, evars>>

Life_create_pool_from_memory ==
    /\ coord.last_memory_pool_id < MaxPools
    /\ life.handed < MaxStorages
    /\ Life_step(create_pool_from_memory(coord, Memory(life.handed + 1)),
                 [life EXCEPT !.handed = @ + 1,
                              !.overwritten = @ \cup StorageOf(coord,
                                                      generate_next_memory_pool_id(coord))])

Life_create_pool_from_buffer ==
    /\ coord.last_memory_pool_id < MaxPools
    /\ life.handed < MaxStorages
    /\ Life_step(create_pool_from_buffer(coord, Memory(life.handed + 1)),
                 [life EXCEPT !.handed = @ + 1,
                              !.overwritten = @ \cup StorageOf(coord,
                                                      generate_next_memory_pool_id(coord))])

Life_replace_memory_pool ==
    \E mpid \in PoolArgs :
        /\ life.handed < MaxStorages
        /\ Life_step(replace_memory_pool(coord, mpid, Memory(life.handed + 1)),
                     [life EXCEPT !.handed = @ + 1,
                                  !.replaced = @ \cup StorageOf(coord, mpid)])

Life_destroy_memory_pool ==
    \E mpid \in PoolArgs :
        LET r == destroy_memory_pool(coord, mpid) IN
        Life_step(r, [life EXCEPT !.destroyed = @ \cup StorageOf(coord, mpid),
                                  !.outlived = @ \cup (StorageOf(coord, mpid)
                                                          \cap ViewStorages(r.co))])

\* a client has created the surface it attaches its views to
InitLife ==
    /\ coord = Run(InnerCoordinator_new, <<Call("create_surface", <<>>)>>)
    /\ emitted = <<>>
    /\ returned = <<1>>
    /\ returned_views = <<>>
    /\ signaler = Signaler_new
    /\ subs = {}
    /\ regs = <<>>
    /\ InitThreads

NextLife ==
    \/ Life_create_pool_from_memory
    \/ Life_create_pool_from_buffer
    \/ Life_replace_memory_pool
    \/ Life_destroy_memory_pool
    \/ Op_create_memory_view
    \/ Op_destroy_memory_view
    \/ Op_destroy_surface(DOMAIN coord.surfaces)
    \/ Op_attach(DOMAIN coord.surfaces)
    \/ Op_commit_surface(DOMAIN coord.surfaces)

SpecLife == InitLife /\ [][NextLife]_vars

----------------------------------------------------------------------------
(* SpecFrames: the Compositor and its frame tree.  Clients create, relate  *)
(* and destroy surfaces; the Exhibitor manages a surface that is not in    *)
(* the tree yet and takes a destroyed one out of it.                       *)

\* the areas of the Display: one that two and three frames divide, one that
\* they do not
DisplaySizes == {<<6, 6>>, <<5, 3>>}

\* one Display child of the root that contains one Workspace
OneWorkspace(geometry, size) ==
    Frame_append(
        Frame_append(<<Frame_new_root, Frame_new_display(<<0, 0>>, size),
                       Frame_new_workspace(geometry, <<0, 0>>, size)>>, 1, 2),
        2, 3)

\* the frames of the tree below f, f included
RECURSIVE Subtree(_, _), SubtreeOfEach(_, _)
Subtree(fs, f) == {f} \cup SubtreeOfEach(fs, space_iter(fs, f))
SubtreeOfEach(fs, subframes) ==
    IF subframes = <<>> THEN {}
    ELSE Subtree(fs, Head(subframes)) \cup SubtreeOfEach(fs, Tail(subframes))

\* the surface ids bound to the leaves of the tree
BoundSids(fs, comp) ==
    {fs[f].sid : f \in {g \in Subtree(fs, comp.root) : fs[g].mode = "Leaf"}}

\* a Compositor as Compositor::new leaves it, or one whose Display has been
\* found and whose Workspace is selected
InitCompositor(geometries, sizes) ==
    \/ /\ frames = <<Frame_new_root>>
       /\ compositor = Compositor_new
    \/ \E geometry \in geometries, size \in sizes :
           /\ frames = OneWorkspace(geometry, size)
           /\ compositor = select(Compositor_new, Some(3))

InitFrames ==
    /\ coord = InnerCoordinator_new
    /\ emitted = <<>>
    /\ returned = <<>>
    /\ returned_views = <<>>
    /\ signaler = Signaler_new
    /\ subs = {}
    /\ regs = <<>>
    /\ InitModules
    /\ InitCompositor({"Vertical"}, {<<6, 6>>})
    /\ unwound = FALSE
    /\ handled = NoHandled
    /\ dropped = {}
    /\ locks = NoLocks

\* what a call to the Exhibitor found before it ran, and the signals the
\* Coordinator has emitted for it
Handling(op, sid, r) ==
    [op |-> op, sid |-> sid, frames |-> frames, compositor |-> compositor,
     known |-> sid \in DOMAIN coord.surfaces,
     parent_sid |-> IF sid \in DOMAIN coord.surfaces THEN coord.surfaces[sid].parent_sid
                    ELSE InvalidSid,
     ev |-> IF r = Unwound THEN <<>> ELSE r.ev,
     calls |-> handled.calls]

\* a handler of the Exhibitor has run with the result r; a handler that
\* unwinds ends the thread of the Exhibitor
Exhibitor_step(r, found) ==
    /\ ~unwound
    /\ handled' = found
    /\ IF r = Unwound
       THEN /\ unwound' = TRUE
            /\ emitted' = <<>>
            /\ UNCHANGED <<coord, frames, compositor>>
       ELSE /\ unwound' = FALSE
            /\ coord' = r.co
            /\ emitted' = r.ev
            /\ frames' = r.frames
            /\ compositor' = r.compositor
    /\ UNCHANGED <<returned, returned_views, holding, todo, lin, ndirect, signaler, fifo,
                   received, unstored, observed, subs, regs, life, dropped, locks>>

Exhibitor_manage_surface ==
    \E sid \in SidArgs(MaxFrameSurfaces) :
        /\ Len(frames) < Len(OneWorkspace("Stacked", <<0, 0>>)) + MaxLeaves
        /\ sid \notin BoundSids(frames, compositor)
        /\ LET r == manage_surface(frames, compositor, coord, sid) IN
               Exhibitor_step(r, Handling("manage_surface", sid, r))

Exhibitor_on_surface_destroyed ==
    \E sid \in SidArgs(MaxFrameSurfaces) :
        LET r == on_surface_destroyed(frames, compositor, coord, sid) IN
        Exhibitor_step(r, Handling("on_surface_destroyed", sid, r))

\* a client makes a surface the subsurface of an older one
Client_relate_surfaces ==
    \E sid \in DOMAIN coord.surfaces, parent_sid \in DOMAIN coord.surfaces :
        /\ parent_sid < sid
        /\ ~is_valid(coord.surfaces[sid].parent_sid)
        /\ Len(coord.surfaces[parent_sid].satellites) < MaxSatellites
        /\ Do(Call("relate_surfaces", <<sid, parent_sid>>))

NextFrames ==
    \/ Op_create_surface(MaxFrameSurfaces)
    \/ Client_relate_surfaces
    \/ Op_destroy_surface(DOMAIN coord.surfaces)
    \/ Exhibitor_manage_surface
    \/ Exhibitor_on_surface_destroyed

SpecFrames == InitFrames /\ [][NextFrames]_vars

----------------------------------------------------------------------------
(* SpecPack: packing and searching on the trees the Compositor builds.      *)
(* The Exhibitor settles top-level surfaces under a Workspace of any        *)
(* geometry; frames of the tree are resized, moved, homogenized and         *)
(* searched.                                                               *)

InitPack ==
    /\ coord = InnerCoordinator_new
    /\ emitted = <<>>
    /\ returned = <<>>
    /\ returned_views = <<>>
    /\ signaler = Signaler_new
    /\ subs = {}
    /\ regs = <<>>
    /\ InitModules
    /\ InitCompositor(Geometries, DisplaySizes)
    /\ unwound = FALSE
    /\ handled = NoHandled
    /\ dropped = {}
    /\ locks = NoLocks

\* the call op(arg) on the frame f, the heap of frames it found and what it
\* gave
Packing(op, f, arg, ev, ret) ==
    [op |-> op, frame |-> f, arg |-> arg, frames |-> frames, ev |-> ev, ret |-> ret,
     calls |-> handled.calls + 1]

\* a method of Packing has run on a frame of the tree and has left t
Pack_step(t, found) ==
    /\ ~unwound
    /\ handled.calls < MaxPackCalls
    /\ frames' = t.fs
    /\ coord' = t.co
    /\ emitted' = t.ev
    /\ handled' = found
    /\ UNCHANGED <<compositor, unwound, returned, returned_views, holding, todo, lin, ndirect,
                   signaler, fifo, received, unstored, observed, subs, regs, life, dropped, locks>>

Pack_homogenize ==
    \E f \in Subtree(frames, compositor.root) :
        LET t == homogenize(Packed(frames, coord, <<>>), f) IN
        Pack_step(t, Packing("homogenize", f, <<>>, t.ev, Unit))

Pack_set_size ==
    \E f \in Subtree(frames, compositor.root), size \in DisplaySizes :
        LET t == set_size(Packed(frames, coord, <<>>), f, size) IN
        Pack_step(t, Packing("set_size", f, size, t.ev, Unit))

Pack_set_position ==
    \E f \in Subtree(frames, compositor.root), pos \in Positions :
        Pack_step(Packed(set_position(frames, f, pos), coord, <<>>),
                  Packing("set_position", f, pos, <<>>, Unit))

Pack_find_with_sid ==
    \E f \in Subtree(frames, compositor.root), sid \in SidArgs(MaxFrameSurfaces) :
        Pack_step(Packed(frames, coord, <<>>),
                  Packing("find_with_sid", f, sid, <<>>, find_with_sid(frames, f, sid)))

NextPack ==
    \/ Op_create_surface(MaxFrameSurfaces)
    \/ Exhibitor_manage_surface
    \/ Pack_homogenize
    \/ Pack_set_size
    \/ Pack_set_position
    \/ Pack_find_with_sid

SpecPack == InitPack /\ [][NextPack]_vars

----------------------------------------------------------------------------
(* SpecExh: the thread of the Exhibitor handles SURFACE_READY and           *)
(* SURFACE_DESTROYED while the thread of the frontend creates, shows,       *)
(* hides and destroys surfaces.                                            *)

InitExh ==
    /\ InitBus
    /\ InitModules
    /\ InitCompositor({"Vertical"}, {<<6, 6>>})
    /\ unwound = FALSE
    /\ handled = NoHandled
    /\ dropped = {}
    /\ locks = NoLocks

\* the packages in a queue
Queued(queue) == {queue[i] : i \in DOMAIN queue}

\* the packages the queue of the Exhibitor has lost when `queues` are the
\* queues after the package was emitted
Lost(package, queues) ==
    IF package.ev.id \in DOMAIN signaler.map /\ "exhibitor" \in signaler.map[package.ev.id]
    THEN (Queued(fifo["exhibitor"]) \cup {package}) \ Queued(queues["exhibitor"])
    ELSE {}

Client_create_surface ==
    /\ coord.last_surface_id < MaxFrameSurfaces
    /\ Conc_call("frontend", Call("create_surface", <<>>))

Client_commit_surface ==
    \E sid \in DOMAIN coord.surfaces : Conc_call("frontend", Call("commit_surface", <<sid>>))

Client_show_surface ==
    \E sid \in DOMAIN coord.surfaces :
        Conc_call("frontend", Call("show_surface", <<sid, IN_SHELL>>))

Client_hide_surface ==
    \E sid \in DOMAIN coord.surfaces :
        Conc_call("frontend", Call("hide_surface", <<sid, IN_SHELL>>))

Client_destroy_surface ==
    \E sid \in DOMAIN coord.surfaces : Conc_call("frontend", Call("destroy_surface", <<sid>>))

\* Signaler::emit of the next signal of the call the frontend is running
Client_emit ==
    \E policy \in [Receivers -> Policies] :
        /\ todo["frontend"] # <<>>
        /\ LET e == Signaler_emit(signaler, fifo, Head(todo["frontend"]), policy) IN
               /\ signaler' = e.signaler
               /\ fifo' = e.queues
               /\ dropped' = dropped \cup Lost(Head(todo["frontend"]), e.queues)
        /\ todo' = [todo EXCEPT !["frontend"] = Tail(@)]
        /\ UNCHANGED <<coord, emitted, returned, returned_views, holding, lin, ndirect, received,
                       unstored, observed, subs, regs, life, frames, compositor, unwound,
                       handled, locks>>

\* the handler ExhibitorModule::execute chooses for the package
Executed(fs, comp, c, package) ==
    CASE package.ev.id = "SURFACE_READY" -> on_surface_ready(fs, comp, c, package.ev.args[1])
      [] package.ev.id = "SURFACE_DESTROYED" ->
             on_surface_destroyed(fs, comp, c, package.ev.args[1])
      [] OTHER -> Returned(fs, comp, c, <<>>)

\* the queues after the signals ev of a handler of the Exhibitor were emitted
RECURSIVE EmitEach(_, _, _, _)
EmitEach(queues, ev, i, policy) ==
    IF i > Len(ev) THEN queues
    ELSE EmitEach(Signaler_emit(signaler, queues,
                                Package(ev[i], lin, i, "execute", "exhibitor"), policy).queues,
                  ev, i + 1, policy)

\* ExhibitorModule::execute for the package the Exhibitor has received and not
\* yet handled; the handler waits for Coordinator.inner
Exhibitor_execute ==
    \E policy \in [Receivers -> Policies] :
        LET n == observed["exhibitor"].n + 1 IN
        /\ ~unwound
        /\ n <= Len(received["exhibitor"])
        /\ CanLock(holding)
        /\ LET package == received["exhibitor"][n]
               r == Executed(frames, compositor, coord, package)
           IN  /\ handled' = Handling(package.ev.id,
                                      IF package.ev.args = <<>> THEN InvalidSid
                                      ELSE package.ev.args[1], r)
               /\ IF r = Unwound
                  THEN /\ unwound' = TRUE
                       /\ emitted' = <<>>
                       /\ UNCHANGED <<coord, frames, compositor, fifo, dropped>>
                  ELSE /\ unwound' = FALSE
                       /\ coord' = r.co
                       /\ emitted' = r.ev
                       /\ frames' = r.frames
                       /\ compositor' = r.compositor
                       /\ fifo' = EmitEach(fifo, r.ev, 1, policy)
                       /\ dropped' = dropped \cup
                              ((Queued(fifo["exhibitor"]) \ Queued(fifo'["exhibitor"]))
                                   \cap {p \in Queued(fifo["exhibitor"]) :
                                            p.ev.id = "SURFACE_DESTROYED"})
        /\ observed' = [observed EXCEPT !["exhibitor"] = [n |-> n]]
        /\ UNCHANGED <<returned, returned_views, holding, todo, lin, ndirect, signaler,
                       received, unstored, subs, regs, life, locks>>

NextExh ==
    \/ Client_create_surface
    \/ Client_commit_surface
    \/ Client_show_surface
    \/ Client_hide_surface
    \/ Client_destroy_surface
    \/ Client_emit
    \/ Conc_store
    \/ Conc_unlock
    \/ Receiver_recv
    \/ Exhibitor_execute

SpecExh == InitExh /\ [][NextExh]_vars

----------------------------------------------------------------------------
(* SpecSearch: searching on frame trees of every shape.  A tree grows from  *)
(* one frame of any mode, a frame at a time; then a frame of it is asked    *)
(* for its top or for the frame contiguous in a direction.                  *)

Modes == {"Root", "Display", "Workspace", "Container", "Leaf"}

\* the geometries of the frames that lay out their children in a line or on
\* top of each other
Directed == {"Horizontal", "Vertical", "Stacked"}

Frame_new_container(geometry) ==
    Frame_new(InvalidSid, "Container", geometry, <<0, 0>>, <<0, 0>>)

\* the frames a frame of the given mode takes as children; the k-th frame of
\* the heap, when a leaf, is bound to the surface k
Twigs(mode, k) ==
    CASE mode = "Root" -> {Frame_new_display(<<0, 0>>, <<0, 0>>)}
      [] mode = "Display" ->
             {Frame_new_workspace(geometry, <<0, 0>>, <<0, 0>>) : geometry \in Directed}
      [] mode \in {"Workspace", "Container"} ->
             {Frame_new_container(geometry) : geometry \in {"Horizontal", "Vertical"}}
                 \cup {Frame_new_leaf(k, "Stacked")}
      [] OTHER -> {}

\* the frames a tree grows from
Seeds ==
    {Frame_new_root, Frame_new_container("Stacked")}
        \cup UNION {Twigs(mode, 1) : mode \in Modes}

InitSearch ==
    /\ coord = InnerCoordinator_new
    /\ emitted = <<>>
    /\ returned = <<>>
    /\ returned_views = <<>>
    /\ signaler = Signaler_new
    /\ subs = {}
    /\ regs = <<>>
    /\ InitModules
    /\ \E f \in Seeds : frames = <<f>>
    /\ compositor = Compositor_new
    /\ unwound = FALSE
    /\ handled = NoHandled
    /\ dropped = {}
    /\ locks = NoLocks

\* Frame::append of a new frame to a frame of the tree; the frames are
\* numbered level by level
Search_append ==
    \E parent \in DOMAIN frames :
        \E f \in Twigs(frames[parent].mode, Len(frames) + 1) :
            /\ Len(frames) < MaxSearchFrames
            /\ handled.calls = 0
            /\ frames[Len(frames)].parent # None => frames[Len(frames)].parent.some <= parent
            /\ frames' = Frame_append(Append(frames, f), parent, Len(frames) + 1)
            /\ UNCHANGED <<coord, emitted, returned, returned_views, holding, todo, lin,
                           ndirect, signaler, fifo, received, unstored, observed, subs, regs,
                           life, compositor, unwound, handled, dropped, locks>>

\* a method of Searching has been called on a frame of the grown tree
Search_step(found) ==
    /\ handled.calls = 0
    /\ handled' = found
    /\ UNCHANGED <<coord, emitted, returned, returned_views, holding, todo, lin, ndirect,
                   signaler, fifo, received, unstored, observed, subs, regs, life, frames,
                   compositor, unwound, dropped, locks>>

Search_find_top ==
    \E f \in DOMAIN frames :
        Search_step(Packing("find_top", f, <<>>, <<>>, find_top(frames, f)))

Search_find_contiguous ==
    \E f \in DOMAIN frames, direction \in Directions, distance \in 0 .. MaxDistance :
        Search_step(Packing("find_contiguous", f, <<direction, distance>>, <<>>,
                            find_contiguous(frames, f, direction, distance)))

NextSearch ==
    \/ Search_append
    \/ Search_find_top
    \/ Search_find_contiguous

SpecSearch == InitSearch /\ [][NextSearch]_vars

----------------------------------------------------------------------------
(* SpecRemove: frames leave the tree.  The Exhibitor settles the surfaces   *)
(* of the clients under a Horizontal or Vertical Workspace, and a frame of  *)
(* the tree, or a frame that has left it, is removed.                       *)

InitRemove ==
    /\ coord = InnerCoordinator_new
    /\ emitted = <<>>
    /\ returned = <<>>
    /\ returned_views = <<>>
    /\ signaler = Signaler_new
    /\ subs = {}
    /\ regs = <<>>
    /\ InitModules
    /\ InitCompositor({"Horizontal", "Vertical"}, DisplaySizes)
    /\ unwound = FALSE
    /\ handled = NoHandled
    /\ dropped = {}
    /\ locks = NoLocks

\* the Exhibitor manages a surface that has no frame yet
Remove_manage_surface ==
    \E sid \in DOMAIN coord.surfaces :
        /\ handled.calls = 0
        /\ sid \notin BoundSids(frames, compositor)
        /\ LET r == manage_surface(frames, compositor, coord, sid) IN
               Exhibitor_step(r, Handling("manage_surface", sid, r))

Pack_remove_self ==
    \E f \in DOMAIN frames :
        LET t == remove_self(Packed(frames, coord, <<>>), f) IN
        Pack_step(t, Packing("remove_self", f, <<>>, t.ev, Unit))

NextRemove ==
    \/ Op_create_surface(MaxRemoveLeaves)
    \/ Remove_manage_surface
    \/ Pack_remove_self

SpecRemove == InitRemove /\ [][NextRemove]_vars

----------------------------------------------------------------------------
(* SpecHist: the surface history.  The Exhibitor manages the surfaces of    *)
(* the clients in any order, and a surface more than once.                  *)

\* Compositor::manage_surface for any surface id
Hist_manage_surface ==
    \E sid \in SidArgs(MaxFrameSurfaces) :
        /\ Len(frames) < Len(OneWorkspace("Stacked", <<0, 0>>)) + MaxManaged
        /\ LET r == manage_surface(frames, compositor, coord, sid) IN
               Exhibitor_step(r, Handling("manage_surface", sid, r))

NextHist ==
    \/ Op_create_surface(MaxFrameSurfaces)
    \/ Op_destroy_surface(DOMAIN coord.surfaces)
    \/ Hist_manage_surface

SpecHist == InitFrames /\ [][NextHist]_vars

----------------------------------------------------------------------------
(* SpecTrip: surfaces are related and unrelated; the last call and the call *)
(* before it are kept with the surfaces they found.                         *)

\* the call k has run after the call that `handled` holds
Trip_step(k) ==
    LET r == Apply(coord, k) IN
    /\ coord' = r.co
    /\ emitted' = r.ev
    /\ handled.calls < MaxTripCalls
    /\ handled' = [op |-> k.op, args |-> k.args, surfaces |-> coord.surfaces, ev |-> r.ev,
                   calls |-> handled.calls + 1,
                   earlier |-> IF handled.op = "none" THEN [op |-> "none"]
                               ELSE [op |-> handled.op, args |-> handled.args,
                                     surfaces |-> handled.surfaces]]
    /\ UNCHANGED <<returned, returned_views, holding, todo, lin, ndirect, signaler, fifo,
                   received, unstored, observed, subs, regs, life, frames, compositor,
                   unwound, dropped, locks>>

Trip_relate_surfaces ==
    \E sid \in DOMAIN coord.surfaces, parent_sid \in DOMAIN coord.surfaces :
        /\ Len(coord.surfaces[parent_sid].satellites) <= MaxSatellites
        /\ Trip_step(Call("relate_surfaces", <<sid, parent_sid>>))

Trip_unrelate_surface ==
    \E sid \in DOMAIN coord.surfaces : Trip_step(Call("unrelate_surface", <<sid>>))

NextTrip ==
    \/ Op_create_surface(MaxRelSurfaces)
    \/ Trip_relate_surfaces
    \/ Trip_unrelate_surface

SpecTrip == Init /\ [][NextTrip]_vars

----------------------------------------------------------------------------
(* SpecShell: a surface that is on the screen is related, shown and hidden. *)
(* The client has committed its surface, the Exhibitor has found a Display  *)
(* and has managed the surface; the frontend goes on calling the            *)
(* Coordinator and the Exhibitor handles the signals.                       *)

\* the Coordinator after the client has committed the surface it has set up
Committed == Apply(SetUp, Call("commit_surface", <<1>>)).co

\* the Exhibitor has handled the SURFACE_READY of that surface
FirstManaged ==
    manage_surface(OneWorkspace("Vertical", <<6, 6>>), select(Compositor_new, Some(3)),
                   Committed, 1)

InitShell ==
    /\ coord = FirstManaged.co
    /\ frames = FirstManaged.frames
    /\ compositor = FirstManaged.compositor
    /\ emitted = <<>>
    /\ returned = <<1>>
    /\ returned_views = <<1>>
    /\ signaler = SubscribeAll(
                      SubscribeAll(Signaler_register(Signaler_new, "exhibitor"),
                                   ExhibitorSignals, "exhibitor"),
                      ObserverSignals, "observer")
    /\ subs = {<<ExhibitorSignals[i], "exhibitor">> : i \in DOMAIN ExhibitorSignals}
                  \cup {<<ObserverSignals[i], "observer">> : i \in DOMAIN ObserverSignals}
    /\ regs = <<"exhibitor">>
    /\ InitModules
    /\ unwound = FALSE
    /\ handled = NoHandled
    /\ dropped = {}
    /\ locks = NoLocks

Frontend_relate_surfaces ==
    \E sid \in DOMAIN coord.surfaces, parent_sid \in DOMAIN coord.surfaces :
        Conc_call("frontend", Call("relate_surfaces", <<sid, parent_sid>>))

NextShell ==
    \/ Client_create_surface
    \/ Client_commit_surface
    \/ Client_show_surface
    \/ Client_hide_surface
    \/ Client_destroy_surface
    \/ Frontend_relate_surfaces
    \/ Client_emit
    \/ Conc_store
    \/ Conc_unlock
    \/ Receiver_recv
    \/ Exhibitor_execute

SpecShell == InitShell /\ [][NextShell]_vars

----------------------------------------------------------------------------
(* The two mutexes: Coordinator.inner and Signaler.inner.  Every call is    *)
(* cut into the steps that lock and drop a guard.                           *)

Mutexes == {"coordinator", "signaler"}

\* a method of the Signaler and what it is called with
Invoke(method, with) == [method |-> method, with |-> with]

\* Mutex::lock for the method k, and the drop of the guard
Lock(mutex, k) == [do |-> "lock", mutex |-> mutex, call |-> k]
Drop(mutex) == [do |-> "drop", mutex |-> mutex, call |-> NoCall]

\* what manage_surface does between its calls on the Coordinator, with the
\* Coordinator as try_get_surface! has seen it
Settle(sid, seen) ==
    [do |-> "settle", mutex |-> "none", call |-> Call("manage_surface", <<sid>>),
     seen |-> seen]

\* the threads that hold the mutex
Owner(mutex) == {t \in Threads : mutex \in locks[t].held}

\* a wrapper that calls the public notify while it holds its guard
Coordinator_lock_again(k) ==
    IF k.op = "commit_surface"
    THEN <<Lock("coordinator", k), Lock("coordinator", Call("notify", <<>>)),
           Drop("coordinator"), Drop("coordinator")>>
    ELSE <<Lock("coordinator", k), Drop("coordinator")>>

\* a public method of the Coordinator: `let mut mine = self.inner.lock()
\* .unwrap()`, the InnerCoordinator methods on `mine`, and the guard dropped
\* when the wrapper returns; commit_surface calls mine.commit_surface and
\* mine.notify on the one guard
Coordinator_lock(k) == <<Lock("coordinator", k), Drop("coordinator")>>

\* a method of the Signaler: `let mut mine = self.inner.lock().unwrap()`,
\* the work on `mine`, and the guard dropped when the method returns
Signaler_lock(k) == <<Lock("signaler", k), Drop("signaler")>>

\* InnerCoordinator calls self.signaler.emit once for each signal, while the
\* guard of the Coordinator is held
RECURSIVE Emits(_, _, _, _)
Emits(ev, idx, op, t) ==
    IF idx > Len(ev) THEN <<>>
    ELSE Signaler_lock(Invoke("emit", <<Package(ev[idx], lin + 1, idx, op, t)>>))
             \o Emits(ev, idx + 1, op, t)

\* Frame::relax on the target: homogenize calls set_size on each frame of
\* space_iter, and set_size calls Coordinator::reconfigure
Reconfigured(fs, target) ==
    IF fs[target].geometry \in {"Stacked", "Vertical", "Horizontal"}
    THEN [i \in DOMAIN space_iter(fs, target) |->
             Call("reconfigure", <<fs[space_iter(fs, target)[i]].sid,
                                   fs[space_iter(fs, target)[i]].size, MAXIMIZED>>)]
    ELSE <<>>

\* the wrappers of the calls, one after the other
RECURSIVE Coordinator_lock_each(_)
Coordinator_lock_each(calls) ==
    IF calls = <<>> THEN <<>>
    ELSE Coordinator_lock(Head(calls)) \o Coordinator_lock_each(Tail(calls))

\* the surface is committed and shown, the modules have subscribed, the
\* Display has been found and its Workspace is selected
InitLock ==
    /\ coord = Committed
    /\ frames = OneWorkspace("Vertical", <<6, 6>>)
    /\ compositor = select(Compositor_new, Some(3))
    /\ emitted = <<>>
    /\ returned = <<1>>
    /\ returned_views = <<1>>
    /\ signaler = SubscribeAll(Signaler_register(Signaler_new, "exhibitor"),
                               ExhibitorSignals, "exhibitor")
    /\ subs = {<<ExhibitorSignals[i], "exhibitor">> : i \in DOMAIN ExhibitorSignals}
    /\ regs = <<"exhibitor">>
    /\ InitModules
    /\ unwound = FALSE
    /\ handled = NoHandled
    /\ dropped = {}
    /\ locks = NoLocks

\* thread t, which is in no call, starts one: plan is the steps of the call
Lock_call(t, plan) ==
    /\ locks[t].plan = <<>>
    /\ locks["frontend"].calls + locks["exhibitor"].calls < MaxLockCalls
    /\ ~(t = "exhibitor" /\ unwound)
    /\ locks' = [locks EXCEPT ![t].plan = plan, ![t].calls = @ + 1]
    /\ UNCHANGED <<coord, emitted, returned, returned_views, holding, todo, lin, ndirect,
                   signaler, fifo, received, unstored, observed, subs, regs, life, frames,
                   compositor, unwound, handled, dropped>>

Lock_notify == \E t \in Threads : Lock_call(t, Coordinator_lock(Call("notify", <<>>)))

Lock_commit_surface ==
    \E t \in Threads, sid \in DOMAIN coord.surfaces :
        Lock_call(t, Coordinator_lock(Call("commit_surface", <<sid>>)))

\* Compositor::manage_surface starts with try_get_surface!
Lock_manage_surface ==
    \E sid \in DOMAIN coord.surfaces :
        Lock_call("exhibitor", Coordinator_lock(Call("get_surface", <<sid>>)))

Lock_emit ==
    \E t \in Threads :
        Lock_call(t, Signaler_lock(Invoke("emit", <<Package(PageFlip, 0, 1, "emit", t)>>)))

Lock_subscribe ==
    \E t \in Threads : Lock_call(t, Signaler_lock(Invoke("subscribe", <<"NOTIFY", "observer">>)))

Lock_register == \E t \in Threads : Lock_call(t, Signaler_lock(Invoke("register", <<"observer">>)))

Lock_terminate == \E t \in Threads : Lock_call(t, Signaler_lock(Invoke("terminate", <<>>)))

\* Mutex::lock on Coordinator.inner returns in thread t, and the method runs
\* up to its first signal
Lock_coordinator(t) ==
    LET step == Head(locks[t].plan)
        rest == Tail(locks[t].plan)
    IN  /\ locks[t].plan # <<>>
        /\ step.do = "lock"
        /\ step.mutex = "coordinator"
        /\ step.call.op # "get_surface"
        /\ CanLock(Owner("coordinator"))
        /\ LET r == Apply(coord, step.call) IN
               /\ coord' = r.co
               /\ emitted' = r.ev
               /\ locks' = [locks EXCEPT ![t].held = @ \cup {"coordinator"},
                                         ![t].plan = Emits(r.ev, 1, step.call.op, t) \o rest]
        /\ lin' = lin + 1
        /\ UNCHANGED <<returned, returned_views, holding, todo, ndirect, signaler, fifo,
                       received, unstored, observed, subs, regs, life, frames, compositor,
                       unwound, handled, dropped>>

\* Mutex::lock on Coordinator.inner returns in try_get_surface! of
\* manage_surface, which reads the surface; what manage_surface does next it
\* does after the guard has been dropped
Lock_get_surface(t) ==
    /\ locks[t].plan # <<>>
    /\ Head(locks[t].plan).do = "lock"
    /\ Head(locks[t].plan).mutex = "coordinator"
    /\ Head(locks[t].plan).call.op = "get_surface"
    /\ CanLock(Owner("coordinator"))
    /\ lin' = lin + 1
    /\ locks' = [locks EXCEPT
            ![t].held = @ \cup {"coordinator"},
            ![t].plan = Tail(@) \o <<Settle(Head(locks[t].plan).call.args[1], coord)>>]
    /\ UNCHANGED <<coord, emitted, returned, returned_views, holding, todo, ndirect,
                   signaler, fifo, received, unstored, observed, subs, regs, life, frames,
                   compositor, unwound, handled, dropped>>

\* manage_surface goes on with the surface it has read: choose_target, which
\* may unwind, and settle, select and history.add on the frames, which no
\* other thread sees.  The calls settle makes on the Coordinator follow, each
\* with a guard of its own, and Coordinator::notify is the last
Lock_settle(t) ==
    /\ locks[t].plan # <<>>
    /\ Head(locks[t].plan).do = "settle"
    /\ LET sid == Head(locks[t].plan).call.args[1]
           seen == Head(locks[t].plan).seen
           surface == try_get_surface(seen, sid)
           m == manage_surface(frames, compositor, seen, sid)
           settled == surface # None /\ m # Unwound
           target == choose_target(frames, compositor, surface.some).target
       IN  /\ locks' = [locks EXCEPT
                   ![t].plan =
                       IF settled
                       THEN Coordinator_lock_each(Reconfigured(m.frames, target))
                                \o Coordinator_lock(Call("notify", <<>>))
                       ELSE <<>>]
           /\ frames' = IF settled THEN m.frames ELSE frames
           /\ compositor' = IF settled THEN m.compositor ELSE compositor
           /\ unwound' = IF surface # None /\ m = Unwound THEN TRUE ELSE unwound
    /\ UNCHANGED <<coord, emitted, returned, returned_views, holding, todo, lin, ndirect,
                   signaler, fifo, received, unstored, observed, subs, regs, life,
                   handled, dropped>>

\* Mutex::lock on Signaler.inner returns in thread t, and the method runs
Lock_signaler(t) ==
    \E policy \in [Receivers -> Policies] :
        LET step == Head(locks[t].plan)
            op == step.call.method
        IN  /\ locks[t].plan # <<>>
            /\ step.do = "lock"
            /\ step.mutex = "signaler"
            /\ CanLock(Owner("signaler"))
            /\ locks' = [locks EXCEPT ![t].held = @ \cup {"signaler"}, ![t].plan = Tail(@)]
            /\ CASE op = "emit" ->
                      LET e == Signaler_emit(signaler, fifo, step.call.with[1], policy) IN
                          signaler' = e.signaler /\ fifo' = e.queues
                 [] op = "subscribe" ->
                      /\ signaler' = Signaler_subscribe(signaler, step.call.with[1],
                                                        step.call.with[2])
                      /\ fifo' = fifo
                 [] op = "register" ->
                      /\ signaler' = Signaler_register(signaler, step.call.with[1])
                      /\ fifo' = fifo
                 [] op = "terminate" ->
                      /\ signaler' = signaler
                      /\ fifo' = Signaler_terminate(signaler, fifo, policy)
            /\ UNCHANGED <<coord, emitted, returned, returned_views, holding, todo, lin, ndirect,
                           received, unstored, observed, subs, regs, life, frames, compositor,
                           unwound, handled, dropped>>

\* the method of thread t returns and its guard is dropped
Lock_drop(t) ==
    /\ locks[t].plan # <<>>
    /\ Head(locks[t].plan).do = "drop"
    /\ locks' = [locks EXCEPT ![t].held = @ \ {Head(locks[t].plan).mutex},
                              ![t].plan = Tail(@)]
    /\ UNCHANGED <<coord, emitted, returned, returned_views, holding, todo, lin, ndirect,
                   signaler, fifo, received, unstored, observed, subs, regs, life, frames,
                   compositor, unwound, handled, dropped>>

NextLock ==
    \/ Lock_notify
    \/ Lock_commit_surface
    \/ Lock_manage_surface
    \/ Lock_emit
    \/ Lock_subscribe
    \/ Lock_register
    \/ Lock_terminate
    \/ \E t \in Threads : Lock_coordinator(t)
    \/ \E t \in Threads : Lock_get_surface(t)
    \/ \E t \in Threads : Lock_settle(t)
    \/ \E t \in Threads : Lock_signaler(t)
    \/ \E t \in Threads : Lock_drop(t)

SpecLock == InitLock /\ [][NextLock]_vars

\* the step thread t takes inside its call: a lock that returns or a guard
\* that is dropped
Lock_step(t) ==
    Lock_coordinator(t) \/ Lock_get_surface(t) \/ Lock_signaler(t) \/ Lock_drop(t)

\* a thread that can go on inside its call does go on: Mutex::lock returns
\* once the mutex is free, and no method loops or blocks elsewhere while it
\* holds a guard.  No thread has to start a call
FairLock == SpecLock /\ \A t \in Threads : WF_vars(Lock_step(t))

----------------------------------------------------------------------------
(* Properties *)

Count(ev, e) == Cardinality({i \in DOMAIN ev : ev[i] = e})

IsReady(c, sid) == sid \in DOMAIN c.surfaces /\ c.surfaces[sid].show_reason = READY
BecomesReady(c, c2, sid) == ~IsReady(c, sid) /\ IsReady(c2, sid)
LeavesReady(c, c2, sid) == IsReady(c, sid) /\ ~IsReady(c2, sid)

\* C1: whatever call is made in whatever reachable state, it hands
\* SURFACE_READY(sid) to the Signaler once if it takes the show reason of sid
\* from a value that is not READY to READY, and not at all otherwise.
C1_ReadyIffTransition ==
    AllCalls(coord, LAMBDA k :
        LET r == Apply(coord, k) IN
        \A sid \in Sids(coord) :
            Count(r.ev, SurfaceReady(sid)) = IF BecomesReady(coord, r.co, sid) THEN 1 ELSE 0)

\* a call has just taken a surface to READY and emitted SURFACE_READY for it
C1_Witness ==
    \E sid \in DOMAIN coord.surfaces :
        /\ IsReady(coord, sid)
        /\ Count(emitted, SurfaceReady(sid)) = 1

C3_IdsIncrease ==
    LET all == Append(returned, create_surface(coord).ret) IN
    \A i \in DOMAIN all :
        /\ all[i] # InvalidSid
        /\ \A j \in DOMAIN all : i < j => all[i] < all[j]

\* a surface was destroyed and create_surface was called again afterwards
C3_Witness ==
    /\ Len(returned) >= 3
    /\ returned[1] \notin DOMAIN coord.surfaces
    /\ returned[2] \notin DOMAIN coord.surfaces
    /\ returned[3] \in DOMAIN coord.surfaces

HasReady(ev) == \E i \in DOMAIN ev : ev[i].id = "SURFACE_READY"

\* C4 as stated: for a freshly created surface s and a registered view v,
\* attach(v, s) emits no SURFACE_READY, the commit_surface(s) after it emits
\* SURFACE_READY(s) exactly once, and a further commit_surface(s) emits none.
C4_Claim ==
    \A s \in DOMAIN coord.surfaces, v \in DOMAIN coord.memory_views :
        coord.surfaces[s] = Surface_new(s) =>
            LET r1 == attach(coord, v, s)
                r2 == Coordinator_commit_surface(r1.co, s)
                r3 == Coordinator_commit_surface(r2.co, s)
            IN  /\ ~HasReady(r1.ev)
                /\ Count(r2.ev, SurfaceReady(s)) = 1 /\ Count(r2.ev, Notify) = Len(r2.ev) - 1
                /\ ~HasReady(r3.ev)

\* C4 amended: for a surface s that was never committed and whose show reason
\* is empty (freshly created) or IN_SHELL alone, attach(v, s) emits no
\* SURFACE_READY; the commit_surface(s) after it emits SURFACE_READY(s) exactly
\* once if IN_SHELL is set and none if it is not; a further commit_surface(s)
\* emits none.
C4_Amended ==
    \A s \in DOMAIN coord.surfaces, v \in DOMAIN coord.memory_views :
        (coord.surfaces[s].buffer = NoView /\ coord.surfaces[s].show_reason \subseteq IN_SHELL) =>
            LET r1 == attach(coord, v, s)
                r2 == Coordinator_commit_surface(r1.co, s)
                r3 == Coordinator_commit_surface(r2.co, s)
            IN  /\ ~HasReady(r1.ev)
                /\ r2.ev = IF coord.surfaces[s].show_reason = IN_SHELL
                           THEN <<SurfaceReady(s), Notify>> ELSE <<Notify>>
                /\ ~HasReady(r3.ev)

\* the first commit of a surface shown IN_SHELL has emitted SURFACE_READY
C4_Witness ==
    \E s \in DOMAIN coord.surfaces :
        /\ emitted = <<SurfaceReady(s), Notify>>
        /\ coord.surfaces[s].buffer # NoView

\* C5 as stated: destroy_surface(sid) of a registered surface emits
\* SurfaceDestroyed(sid) and removes the record; afterwards get_surface(sid)
\* is None and every call naming sid leaves all surface records unchanged.
C5_Claim ==
    /\ \A sid \in DOMAIN coord.surfaces :
           /\ destroy_surface(coord, sid).ev = <<SurfaceDestroyed(sid)>>
           /\ get_surface(destroy_surface(coord, sid).co, sid) = None
    /\ \A sid \in (1 .. coord.last_surface_id) \ DOMAIN coord.surfaces :
           /\ get_surface(coord, sid) = None
           /\ AllCalls(coord, LAMBDA k :
                  sid \in NamedSids(k) => Apply(coord, k).co.surfaces = coord.surfaces)

\* the call names an identifier that is not in the registry
NamesUnknown(c, k) ==
    \/ \E sid \in NamedSids(k) : sid \notin DOMAIN c.surfaces
    \/ k.op \in {"destroy_memory_pool", "replace_memory_pool", "create_memory_view"}
           /\ k.args[1] \notin DOMAIN c.memory_pools
    \/ k.op \in {"destroy_memory_view", "attach"} /\ k.args[1] \notin DOMAIN c.memory_views

\* C6 as stated: a call that names an identifier not in the registry leaves
\* the surface records, the pool registry and the view registry as they were.
C6_Claim ==
    AllCalls(coord, LAMBDA k :
        NamesUnknown(coord, k) =>
            /\ Apply(coord, k).co.surfaces = coord.surfaces
            /\ Apply(coord, k).co.memory_pools = coord.memory_pools
            /\ Apply(coord, k).co.memory_views = coord.memory_views)

\* C7 as stated: destroy_surface, detach_surface, set_surface_as_cursor,
\* commit_surface, show_surface, hide_surface and reconfigure emit no event
\* when called with a surface id that is not registered.
C7_Claim ==
    AllCalls(coord, LAMBDA k :
        (/\ k.op \in {"destroy_surface", "detach_surface", "set_surface_as_cursor",
                      "commit_surface", "show_surface", "hide_surface", "reconfigure"}
         /\ k.args[1] \notin DOMAIN coord.surfaces)
            => Apply(coord, k).ev = <<>>)

\* C8: set_keyboard_focus(sid) emits KEYBOARD_FOCUS_CHANGED(old, sid) exactly
\* when sid differs from the stored focus old, and emits nothing otherwise;
\* afterwards get_keyboard_focused_sid() is sid, so that a second
\* set_keyboard_focus(sid) right after it emits nothing.
C8_KeyboardFocus ==
    \A sid \in Sids(coord) :
        LET r1 == set_keyboard_focus(coord, sid)
            r2 == set_keyboard_focus(r1.co, sid)
        IN  /\ r1.ev = IF sid # get_keyboard_focused_sid(coord)
                       THEN <<KeyboardFocusChanged(get_keyboard_focused_sid(coord), sid)>>
                       ELSE <<>>
            /\ get_keyboard_focused_sid(r1.co) = sid
            /\ r2.ev = <<>>

\* the focus has moved from one surface to another and the event says so
C8_Witness ==
    \E old \in DOMAIN coord.surfaces :
        /\ coord.kfsid # old
        /\ coord.kfsid # InvalidSid
        /\ emitted = <<KeyboardFocusChanged(old, coord.kfsid)>>

\* what a receiver gets: the packages it has received, then those in its queue
Stream(r) == received[r] \o fifo[r]

\* C9: every call of the public commit_surface hands exactly one NOTIFY to the
\* Signaler; and whenever a receiver gets the SURFACE_READY and the NOTIFY of
\* one commit_surface call, it gets the SURFACE_READY first and no package of
\* another Coordinator call between the two.
C9_CommitNotify ==
    /\ \A sid \in Sids(coord) :
           Count(Apply(coord, Call("commit_surface", <<sid>>)).ev, Notify) = 1
    /\ \A r \in Receivers :
           LET s == Stream(r) IN
           \A i \in DOMAIN s, j \in DOMAIN s :
               (/\ s[i].op = "commit_surface" /\ s[i].ev.id = "SURFACE_READY"
                /\ s[j].lin = s[i].lin /\ s[j].ev = Notify)
                   => /\ i < j
                      /\ \A m \in (i + 1) .. (j - 1) : s[m].lin = 0

\* a receiver has received the SURFACE_READY of a commit_surface call, a
\* PAGE_FLIP of a module and the NOTIFY of the call, and a package of another
\* Coordinator call as well
C9_Witness ==
    \E r \in Receivers :
        \E i \in DOMAIN received[r], m \in DOMAIN received[r] :
            /\ i + 2 \in DOMAIN received[r]
            /\ received[r][i].op = "commit_surface"
            /\ received[r][i].ev.id = "SURFACE_READY"
            /\ received[r][i + 1].ev = PageFlip
            /\ received[r][i + 2].ev = Notify
            /\ received[r][i + 2].lin = received[r][i].lin
            /\ received[r][m].lin \notin {0, received[r][i].lin}

\* C10: every receiver gets the packages of Coordinator calls in the order in
\* which the calls locked the Coordinator mutex, and the packages of one call
\* in the order the call emitted them, whatever their signal ids.
C10_LockOrder ==
    \A r \in Receivers :
        LET s == Stream(r) IN
        \A i \in DOMAIN s, j \in DOMAIN s :
            (i < j /\ s[i].lin # 0 /\ s[j].lin # 0)
                => \/ s[i].lin < s[j].lin
                   \/ s[i].lin = s[j].lin /\ s[i].idx < s[j].idx

\* a receiver has received two packages with different signal ids that two
\* different threads emitted through the Coordinator
C10_Witness ==
    \E r \in Receivers :
        \E i \in DOMAIN received[r], j \in DOMAIN received[r] :
            /\ i < j
            /\ received[r][i].lin # 0 /\ received[r][j].lin # 0
            /\ received[r][i].thread # received[r][j].thread
            /\ received[r][i].ev.id # received[r][j].ev.id

\* C11: a handler that asks the Coordinator while it handles a package reads
\* a state that is not older than the one the emitting call left: for
\* KeyboardFocusChanged(old, new) it reads new from get_keyboard_focused_sid
\* unless a call has locked the Coordinator after the emitting one, and for the
\* SurfaceDestroyed(sid) of destroy_surface it finds sid not registered.
C11_HandlerSeesEmitter ==
    \A r \in Receivers :
        observed[r].n > 0 =>
            LET p == received[r][observed[r].n] IN
            /\ observed[r].lin >= p.lin
            /\ (p.ev.id = "KEYBOARD_FOCUS_CHANGED" /\ observed[r].lin = p.lin)
                   => observed[r].kfsid = p.ev.args[2]
            /\ (p.ev.id = "SURFACE_DESTROYED" /\ p.op = "destroy_surface")
                   => p.ev.args[1] \notin observed[r].registered

\* one handler has read the new focus while it handled KeyboardFocusChanged,
\* another package of the module came from a destroy_surface
C11_Witness ==
    \E r \in Receivers :
        /\ observed[r].n > 0
        /\ received[r][observed[r].n].ev.id = "KEYBOARD_FOCUS_CHANGED"
        /\ observed[r].kfsid = received[r][observed[r].n].ev.args[2]
        /\ \E i \in DOMAIN received[r] : received[r][i].op = "destroy_surface"

\* C12: no Coordinator operation holds the Coordinator mutex while it emits:
\* a thread that is inside Signaler::emit (it has a package in hand that its
\* running call passes to emit) does not own Coordinator.inner.
C12_Claim ==
    \A t \in Threads : todo[t] # <<>> => t \notin holding

\* an event that is a Package, and the packages of a signal in a queue
IsPackage(e) == "ev" \in DOMAIN e
PackagesOf(queue, id) == {i \in DOMAIN queue : IsPackage(queue[i]) /\ queue[i].ev.id = id}
TerminatesIn(queue) == {i \in DOMAIN queue : queue[i] = Terminate}

RECURSIVE EnqueueTimes(_, _, _, _)
EnqueueTimes(queue, event, n, policy) ==
    IF n = 0 THEN queue
    ELSE EnqueueTimes(Bridge_enqueue(queue, event, policy), event, n - 1, policy)

C15_EmitUnknownNoOp ==
    \A id \in SigIds, policy \in [Receivers -> Policies] :
        (\A r \in Receivers : <<id, r>> \notin subs) =>
            LET e == Signaler_emit(signaler, fifo, SigPackage(id, ndirect + 1), policy)
            IN  /\ e.queues = fifo
                /\ e.signaler = signaler
                /\ id \notin DOMAIN e.signaler.map

\* the last emit was for a signal nobody has subscribed to, while receivers
\* are subscribed to another signal and registered, and all queues are empty
C15_Witness ==
    \E id \in SigIds :
        /\ emitted = <<Ev(id, <<>>)>>
        /\ \A r \in Receivers : <<id, r>> \notin subs
        /\ subs # {}
        /\ regs # <<>>
        /\ \A r \in Receivers : Stream(r) = <<>>

\* C16: relate_surfaces(sid, parent_sid) with both surfaces registered leaves
\* surface sid with parent parent_sid, relative position zero and IN_SHELL
\* cleared and nothing else of it changed, leaves sid on the satellite list of
\* parent_sid, which is the old list with sid appended, and changes the record
\* of no other surface.
C16_RelateSurfaces ==
    \A sid \in DOMAIN coord.surfaces, parent_sid \in DOMAIN coord.surfaces :
        LET old == coord.surfaces
            new == relate_surfaces(coord, sid, parent_sid).co.surfaces
            child == [old[sid] EXCEPT !.parent_sid = parent_sid,
                                      !.relative_position = <<0, 0>>,
                                      !.show_reason = @ \ IN_SHELL]
        IN  /\ DOMAIN new = DOMAIN old
            /\ new[sid].parent_sid = parent_sid
            /\ new[sid].relative_position = <<0, 0>>
            /\ new[sid].show_reason \cap IN_SHELL = {}
            /\ \E i \in DOMAIN new[parent_sid].satellites : new[parent_sid].satellites[i] = sid
            /\ IF sid = parent_sid
               THEN new[sid] = [child EXCEPT !.satellites = Append(@, sid)]
               ELSE /\ new[sid] = child
                    /\ new[parent_sid] = [old[parent_sid] EXCEPT !.satellites = Append(@, sid)]
            /\ \A other \in DOMAIN old \ {sid, parent_sid} : new[other] = old[other]

\* a surface has been related to another surface, which has its place in the
\* shell and a relative position and now lists it as a satellite
C16_Witness ==
    \E sid \in DOMAIN coord.surfaces, parent_sid \in DOMAIN coord.surfaces :
        /\ sid # parent_sid
        /\ coord.surfaces[sid].parent_sid = parent_sid
        /\ coord.surfaces[sid].relative_position = <<0, 0>>
        /\ coord.surfaces[sid].show_reason = {}
        /\ coord.surfaces[parent_sid].satellites = <<parent_sid, sid>>
        /\ coord.surfaces[parent_sid].show_reason = IN_SHELL
        /\ coord.surfaces[parent_sid].relative_position = <<1, 1>>

\* C17: in every reachable state, every surface id in the list that
\* get_renderer_context(sid) returns is registered, and get_renderer_context
\* of an unregistered sid returns None.  (A call that does not return, because
\* the satellite lists form a cycle, returns no list.)
C17_ContextRegistered ==
    \A sid \in Sids(coord) :
        LET r == get_renderer_context(coord, sid) IN
        /\ sid \notin DOMAIN coord.surfaces => r = None
        /\ (sid \in DOMAIN coord.surfaces /\ r # Overflow) =>
               /\ r # None
               /\ \A i \in DOMAIN r.some : r.some[i].id \in DOMAIN coord.surfaces

\* a surface lists a satellite that has been destroyed, and its context is
\* the list of its own context only
C17_Witness ==
    \E sid \in DOMAIN coord.surfaces :
        /\ \E i \in DOMAIN coord.surfaces[sid].satellites :
               /\ coord.surfaces[sid].satellites[i] \notin DOMAIN coord.surfaces
               /\ coord.surfaces[sid].satellites[i] \in 1 .. coord.last_surface_id
        /\ get_renderer_context(coord, sid)
               = Some(<<Surface_get_renderer_context(sid, coord.surfaces[sid])>>)

\* C18: reconfigure(sid, size, state_flags) on a registered surface emits
\* SURFACE_RECONFIGURED(sid) exactly when size differs from the stored desired
\* size or state_flags from the stored state flags, and then stores both and
\* changes nothing else; when neither differs it changes nothing and emits
\* nothing, so the same reconfigure right after it emits no second event.
C18_Reconfigure ==
    \A sid \in DOMAIN coord.surfaces, size \in Sizes, state_flags \in {REGULAR, MAXIMIZED} :
        LET r1 == reconfigure(coord, sid, size, state_flags)
            r2 == reconfigure(r1.co, sid, size, state_flags)
            differs == \/ coord.surfaces[sid].desired_size # size
                       \/ coord.surfaces[sid].state_flags # state_flags
        IN  /\ r1.ev = IF differs THEN <<SurfaceReconfigured(sid)>> ELSE <<>>
            /\ r1.co = IF differs
                       THEN [coord EXCEPT !.surfaces[sid].desired_size = size,
                                          !.surfaces[sid].state_flags = state_flags]
                       ELSE coord
            /\ r1.co.surfaces[sid].desired_size = size
            /\ r1.co.surfaces[sid].state_flags = state_flags
            /\ r2.ev = <<>>
            /\ r2.co = r1.co

\* a surface has been given a size and state flags, the last call emitted the
\* event, the same call again emits nothing and one with other flags does
C18_Witness ==
    \E sid \in DOMAIN coord.surfaces :
        /\ coord.surfaces[sid].desired_size = <<4, 2>>
        /\ coord.surfaces[sid].state_flags = MAXIMIZED
        /\ emitted = <<SurfaceReconfigured(sid)>>
        /\ reconfigure(coord, sid, <<4, 2>>, MAXIMIZED).ev = <<>>
        /\ reconfigure(coord, sid, <<4, 2>>, REGULAR).ev = <<SurfaceReconfigured(sid)>>

\* C19: create_memory_view(mpid, ...) returns None exactly when mpid is not in
\* the pool registry at the time of the call, and then registers no view;
\* otherwise it returns a view id that no call has returned before and
\* registers a view of the pool under it, leaving the other views as they are.
C19_CreateMemoryView ==
    \A mpid \in Mpids(coord) \cup DOMAIN coord.memory_pools :
        LET r == create_memory_view(coord, mpid) IN
        /\ (r.ret = None) <=> (mpid \notin DOMAIN coord.memory_pools)
        /\ r.co.memory_pools = coord.memory_pools
        /\ r.ret = None => r.co.memory_views = coord.memory_views
        /\ r.ret # None =>
               /\ \A i \in DOMAIN returned_views : returned_views[i] # r.ret.some
               /\ DOMAIN r.co.memory_views = DOMAIN coord.memory_views \cup {r.ret.some}
               /\ r.co.memory_views[r.ret.some] = coord.memory_pools[mpid]
               /\ \A mvid \in DOMAIN coord.memory_views :
                      /\ mvid # r.ret.some
                      /\ r.co.memory_views[mvid] = coord.memory_views[mvid]

\* create_memory_view has returned a view id and the view is registered; the
\* pool it came from has been destroyed since, and a view of it is refused
C19_Witness ==
    /\ returned_views # <<>>
    /\ \E i \in DOMAIN returned_views : returned_views[i] \in DOMAIN coord.memory_views
    /\ \E gone \in 1 .. coord.last_memory_pool_id :
           /\ gone \notin DOMAIN coord.memory_pools
           /\ create_memory_view(coord, gone).ret = None
           /\ create_memory_view(coord, gone).co.memory_views = coord.memory_views

\* the storages handed over so far, and those released in this step
Handed == {Memory(n) : n \in 1 .. life.handed}
Released == {storage \in Handed : Live(coord, storage) /\ ~Live(coord', storage)}

\* a storage that is not live does not become live again: it is released once
ReleasedOnce == \A storage \in Handed : ~Live(coord, storage) => ~Live(coord', storage)

\* destroy_memory_pool leaves the views and the buffers of the surfaces as
\* they are, so that a view of the pool is readable until it is dropped
ViewsOutliveThePool ==
    \A mpid \in PoolArgs :
        LET r == destroy_memory_pool(coord, mpid) IN
        /\ r.co.memory_views = coord.memory_views
        /\ r.co.surfaces = coord.surfaces
        /\ \A storage \in ViewStorages(coord) : Live(r.co, storage)

\* C20 as stated: the storage of a pool is live while the pool is registered
\* or a view of it exists, and it is released exactly once, at the moment when
\* destroy_memory_pool has been called for its pool and the last view has been
\* dropped; after destroy_memory_pool a view of the pool stays readable.
C20_Claim ==
    /\ [](ViewsOutliveThePool)
    /\ [][/\ ReleasedOnce
          /\ \A storage \in Released :
                 /\ storage \in life'.destroyed
                 /\ storage \notin ViewStorages(coord')]_vars

\* C20 amended: a storage is released exactly once, at the moment when its
\* pool has left the registry and the last view has been dropped; the pool
\* leaves the registry by destroy_memory_pool, by a replace_memory_pool that
\* puts another storage under its id, or by a create_pool call that generates
\* its id (an id replace_memory_pool had registered before it was generated).
\* After destroy_memory_pool a view of the pool stays readable.
C20_Amended ==
    /\ [](ViewsOutliveThePool)
    /\ [][/\ ReleasedOnce
          /\ \A storage \in Released :
                 /\ storage \in life'.destroyed \cup life'.replaced \cup life'.overwritten
                 /\ storage \notin PoolStorages(coord')
                 /\ storage \notin ViewStorages(coord')]_vars

\* a storage that had a view when its pool was destroyed has been released
\* since, and another storage, which a replace_memory_pool took out of the
\* registry, as well
C20_Witness ==
    \E storage \in life.outlived, other \in life.replaced :
        /\ storage # other
        /\ ~Live(coord, storage)
        /\ ~Live(coord, other)

\* the Exhibitor has just managed the surface sid
Managed(sid) == handled.op = "manage_surface" /\ handled.sid = sid

\* the leaves of the tree that are bound to sid
LeavesOf(fs, comp, sid) ==
    {f \in Subtree(fs, comp.root) : fs[f].mode = "Leaf" /\ fs[f].sid = sid}

\* C21: manage_surface(sid) for a sid the Coordinator does not know returns
\* and has no effect: the heap of frames, and so the tree, the selection and
\* the history are what they were, and no NOTIFY was emitted
C21_UnknownSurfaceNoEffect ==
    \A sid \in SidArgs(MaxFrameSurfaces) :
        (Managed(sid) /\ ~handled.known)
            => /\ ~unwound
               /\ frames = handled.frames
               /\ compositor = handled.compositor
               /\ \A i \in DOMAIN handled.ev : handled.ev[i] # Notify

\* manage_surface was called for a valid id the Coordinator does not know
\* while a surface was in the tree and a frame was selected
C21_Witness ==
    \E sid \in SidArgs(MaxFrameSurfaces) :
        /\ Managed(sid)
        /\ ~handled.known
        /\ is_valid(sid)
        /\ compositor.selection # None
        /\ compositor.history # <<>>
        /\ BoundSids(frames, compositor) # {}

\* C24: manage_surface never unwinds: in every reachable state of the
\* Compositor, manage_surface(sid) of a registered surface returns
C24_Claim ==
    \A sid \in SidArgs(MaxFrameSurfaces) :
        (Managed(sid) /\ handled.known) => ~unwound

\* the number of NOTIFY among the signals of the last call to the Exhibitor
NotifiesHandled == Cardinality({i \in DOMAIN handled.ev : handled.ev[i] = Notify})

\* the frame f is a leaf of the tree that is bound to sid, did not exist
\* before the last call and is a child of the top frame above the selection
\* of before the call
SettledOnTop(f, sid) ==
    /\ f \in LeavesOf(frames, compositor, sid)
    /\ f \notin DOMAIN handled.frames
    /\ handled.compositor.selection # None
    /\ frames[f].parent = find_top(handled.frames, handled.compositor.selection.some)

\* the frame f has two children, the leaves of the surfaces 1 and 2, and each
\* has half of the area of f along y
HalvedAlongY(fs, f) ==
    /\ Len(space_iter(fs, f)) = 2
    /\ {fs[space_iter(fs, f)[i]].sid : i \in 1 .. 2} = {1, 2}
    /\ \A i \in 1 .. 2 :
           LET child == fs[space_iter(fs, f)[i]] IN
           /\ child.mode = "Leaf"
           /\ child.size = <<fs[f].size[1], fs[f].size[2] \div 2>>
           /\ child.size[2] * 2 = fs[f].size[2]
           /\ child.pos = <<fs[f].pos[1], fs[f].pos[2] + (i - 1) * child.size[2]>>

\* C22: after manage_surface(sid) of a registered surface without a valid
\* parent surface the tree holds a new leaf bound to sid, of geometry
\* Vertical, under the top frame above the previous selection, that leaf is
\* selected and NOTIFY was emitted once; after surface 1 and then surface 2
\* were managed the Workspace has two children, each with half of its area
\* along y, and the leaf of surface 2 is selected
C22_Claim ==
    \A sid \in SidArgs(MaxFrameSurfaces) :
        (Managed(sid) /\ handled.known /\ ~is_valid(handled.parent_sid))
            => /\ ~unwound
               /\ \E f \in DOMAIN frames :
                      /\ SettledOnTop(f, sid)
                      /\ frames[f].geometry = "Vertical"
                      /\ compositor.selection = Some(f)
               /\ NotifiesHandled = 1
               /\ (sid = 2 /\ handled.compositor.history = <<1>>)
                      => \E w \in DOMAIN frames :
                             /\ frames[w].mode = "Workspace"
                             /\ HalvedAlongY(frames, w)
                             /\ compositor.selection \in {Some(f) : f \in LeavesOf(frames, compositor, 2)}

\* the call found the leaf l selected, bound to surface 1 and a child of a top
\* frame, and surface 2 with surface 1 as its parent surface
SubordinateOf(l) ==
    /\ Managed(2)
    /\ handled.known
    /\ handled.parent_sid = 1
    /\ handled.compositor.selection = Some(l)
    /\ handled.frames[l].mode = "Leaf"
    /\ handled.frames[l].sid = 1
    /\ handled.frames[l].parent # None
    /\ Mode_is_top(handled.frames[handled.frames[l].parent.some].mode)

\* C23: when the selected frame is the top-level leaf of surface 1 and
\* manage_surface(2) is called for a surface 2 whose parent surface is 1, the
\* leaves of both surfaces are children of one Stacked frame, the leaf of
\* surface 2 lies over the leaf of surface 1, and each of them has the area
\* the leaf of surface 1 had before the call
C23_Claim ==
    \A l \in DOMAIN handled.frames :
        SubordinateOf(l)
            => /\ ~unwound
               /\ \E container \in DOMAIN frames, l2 \in LeavesOf(frames, compositor, 2) :
                      /\ frames[container].geometry = "Stacked"
                      /\ frames[l].parent = Some(container)
                      /\ frames[l2].parent = Some(container)
                      /\ frames[l].sid = 1
                      /\ \A f \in {l, l2} :
                             /\ frames[f].pos = handled.frames[l].pos
                             /\ frames[f].size = handled.frames[l].size

\* C25: in every frame tree reached through manage_surface and remove_self a
\* frame is a Leaf exactly if the surface id it is bound to is valid, and no
\* frame of the tree has a Leaf as its parent
C25_LeafIffBound ==
    \A f \in Subtree(frames, compositor.root) :
        /\ (frames[f].mode = "Leaf") <=> is_valid(frames[f].sid)
        /\ frames[f].parent # None => frames[frames[f].parent.some].mode # "Leaf"

\* a subsurface was settled while the leaf of its parent surface was selected,
\* and a leaf has left the tree since
C25_Witness ==
    /\ handled.op = "on_surface_destroyed"
    /\ frames # handled.frames
    /\ \E f \in DOMAIN handled.frames :
           /\ handled.frames[f].mode = "Leaf"
           /\ handled.frames[f].geometry = "Stacked"
    /\ BoundSids(frames, compositor) # {}

\* the frame f has just been handled by the method op of Packing or Searching
Packs(op, f) == handled.op = op /\ handled.frame = f

\* the index of the layout axis of a directed geometry: x or y
Axis(geometry) == IF geometry = "Horizontal" THEN 1 ELSE 2

\* the area of the frame a lies inside the area of the frame b
Inside(a, b) ==
    \A k \in 1 .. 2 : a.pos[k] >= b.pos[k] /\ a.pos[k] + a.size[k] <= b.pos[k] + b.size[k]

\* the areas of the frames a and b have a point in common
Overlap(a, b) ==
    \A k \in 1 .. 2 : a.pos[k] < b.pos[k] + b.size[k] /\ b.pos[k] < a.pos[k] + a.size[k]

\* the sum of the extents of the frames along the axis k
RECURSIVE Extents(_, _, _)
Extents(fs, subframes, k) ==
    IF subframes = <<>> THEN 0
    ELSE fs[Head(subframes)].size[k] + Extents(fs, Tail(subframes), k)

\* the children of f partition the area of f
Partitioned(fs, f) ==
    LET children == space_iter(fs, f) IN
    /\ \A i \in DOMAIN children : Inside(fs[children[i]], fs[f])
    /\ \A i, j \in DOMAIN children :
           i # j => ~Overlap(fs[children[i]], fs[children[j]])
    /\ Extents(fs, children, Axis(fs[f].geometry)) = fs[f].size[Axis(fs[f].geometry)]

\* C27: after homogenize on a Horizontal or Vertical frame with n >= 1
\* children, whatever the size of the frame and whatever n, the areas of the
\* children partition the area of the frame: they lie inside it, no two
\* overlap, and their extents along the layout axis sum to the extent of the
\* frame
C27_Claim ==
    \A f \in DOMAIN frames :
        (/\ Packs("homogenize", f)
         /\ frames[f].geometry \in {"Horizontal", "Vertical"}
         /\ count_children(frames, f) >= 1)
            => Partitioned(frames, f)

\* the signals SURFACE_RECONFIGURED among ev
Reconfigurations(ev) == {i \in DOMAIN ev : ev[i].id = "SURFACE_RECONFIGURED"}

\* C28: after set_size(s) the frame has the size s, and a second set_size(s)
\* changes the size and the position of no frame and has no
\* SURFACE_RECONFIGURED emitted
C28_SetSizeTwice ==
    \A f \in DOMAIN frames :
        Packs("set_size", f)
            => /\ frames[f].size = handled.arg
               /\ LET again == set_size(Packed(frames, coord, <<>>), f, handled.arg) IN
                      /\ again.fs = frames
                      /\ Reconfigurations(again.ev) = {}

\* the size of a frame above two leaves was set and the surfaces of both
\* leaves were reconfigured for it
C28_Witness ==
    \E f \in DOMAIN frames :
        /\ Packs("set_size", f)
        /\ Cardinality({g \in Subtree(frames, f) : frames[g].mode = "Leaf"}) >= 2
        /\ Cardinality(Reconfigurations(handled.ev)) >= 2

\* C29: after set_position(p) the frame is at p, every frame below it has
\* moved by the vector from the old position of the frame to p, and no frame
\* has another size than before
C29_SetPositionRigid ==
    \A f \in DOMAIN frames :
        Packs("set_position", f)
            => /\ frames[f].pos = handled.arg
               /\ \A d \in Subtree(handled.frames, f), k \in 1 .. 2 :
                      frames[d].pos[k] - handled.frames[d].pos[k]
                          = handled.arg[k] - handled.frames[f].pos[k]
               /\ \A d \in DOMAIN frames : frames[d].size = handled.frames[d].size

\* a frame with frames below its children was moved to another position
C29_Witness ==
    \E f \in DOMAIN frames :
        /\ Packs("set_position", f)
        /\ handled.arg # handled.frames[f].pos
        /\ \E child \in Subtree(frames, f) \ {f} : Subtree(frames, child) # {child}

\* C30: for every frame and every surface id, the invalid id included,
\* find_with_sid(sid) returns a frame exactly if a leaf below the frame (the
\* frame included) is bound to sid, and the frame returned is bound to sid
C30_Claim ==
    \A f \in DOMAIN frames :
        Packs("find_with_sid", f)
            => /\ (handled.ret # None)
                      <=> (\E l \in Subtree(frames, f) :
                              frames[l].mode = "Leaf" /\ frames[l].sid = handled.arg)
               /\ handled.ret # None => frames[handled.ret.some].sid = handled.arg

\* C30 as amended: for a valid surface id the claim holds as stated, and the
\* frame returned is the leaf of the surface; for the invalid id find_with_sid
\* returns the first frame in pre-order that is bound to no surface, which is
\* the frame itself unless it is a leaf, and nothing for a leaf
C30_Amended ==
    \A f \in DOMAIN frames :
        Packs("find_with_sid", f)
            => IF is_valid(handled.arg)
               THEN /\ (handled.ret # None)
                           <=> (\E l \in Subtree(frames, f) :
                                   frames[l].mode = "Leaf" /\ frames[l].sid = handled.arg)
                    /\ handled.ret # None
                           => /\ handled.ret.some \in Subtree(frames, f)
                              /\ frames[handled.ret.some].mode = "Leaf"
                              /\ frames[handled.ret.some].sid = handled.arg
               ELSE handled.ret = IF frames[f].mode = "Leaf" THEN None ELSE Some(f)

\* find_with_sid has found the leaf of a surface two levels below the frame
\* it was called on, and the workspace has another leaf
C30_Witness ==
    \E f \in DOMAIN frames :
        /\ Packs("find_with_sid", f)
        /\ is_valid(handled.arg)
        /\ handled.ret # None
        /\ frames[handled.ret.some].parent # None
        /\ frames[handled.ret.some].parent # Some(f)
        /\ count_children(frames, frames[handled.ret.some].parent.some) >= 2

\* the surfaces whose SURFACE_DESTROYED is among the packages
DestroyedIn(packages) ==
    {p.ev.args[1] : p \in {q \in packages : q # Terminate /\ q.ev.id = "SURFACE_DESTROYED"}}

\* the surfaces with a SURFACE_DESTROYED the Exhibitor has not handled: it is
\* still to be emitted, it waits in the queue, it was received and waits for
\* its handler, or the full queue has dropped it
NotYetDestroyed ==
    DestroyedIn(Queued(todo["frontend"])
                    \cup Queued(fifo["exhibitor"])
                    \cup {received["exhibitor"][i] :
                             i \in (observed["exhibitor"].n + 1) .. Len(received["exhibitor"])}
                    \cup dropped)

\* C26: in every state of the system in which the Exhibitor handles
\* SURFACE_READY and SURFACE_DESTROYED while other threads create, show, hide
\* and destroy surfaces, the surface ids bound to leaves of the frame tree
\* are registered in the Coordinator
C26_Claim == BoundSids(frames, compositor) \subseteq DOMAIN coord.surfaces

\* C26 as amended: a surface id bound to a leaf of the frame tree is
\* registered in the Coordinator, or a SURFACE_DESTROYED emitted for it has
\* not been handled by the Exhibitor
C26_Amended ==
    BoundSids(frames, compositor) \subseteq (DOMAIN coord.surfaces \cup NotYetDestroyed)

\* a surface with a leaf in the tree has been destroyed and the Exhibitor has
\* received its SURFACE_DESTROYED but has not handled it yet
C26_Witness ==
    \E sid \in BoundSids(frames, compositor) :
        /\ sid \notin DOMAIN coord.surfaces
        /\ holding = {}
        /\ sid \in DestroyedIn({received["exhibitor"][i] :
                    i \in (observed["exhibitor"].n + 1) .. Len(received["exhibitor"])})

\* the last call was the search `op` on a frame of the tree
Searches(op) == handled.op = op /\ handled.calls > 0

\* the frame f, its parent, its grandparent and so on, nearest first
RECURSIVE Chain(_, _)
Chain(fs, f) ==
    IF fs[f].parent = None THEN <<f>> ELSE <<f>> \o Chain(fs, fs[f].parent.some)

\* the places of the chain that hold a frame whose mode is top
TopsOf(fs, chain) ==
    {i \in DOMAIN chain : fs[chain[i]].mode = "Display" \/ fs[chain[i]].mode = "Workspace"}

\* C31: find_top gives the nearest frame of the chain self, parent,
\* grandparent, ... whose mode is Display or Workspace, and none exactly when
\* the chain has no such frame; on a frame without parent it gives the frame
\* if its mode is top and none otherwise
C31_FindTop ==
    Searches("find_top") =>
        LET fs == handled.frames
            f == handled.frame
            chain == Chain(fs, f)
            tops == TopsOf(fs, chain)
        IN  /\ (handled.ret = None) <=> (tops = {})
            /\ tops # {} =>
                   handled.ret = Some(chain[CHOOSE i \in tops : \A j \in tops : i <= j])
            /\ fs[f].parent = None =>
                   handled.ret = IF fs[f].mode \in {"Display", "Workspace"} THEN Some(f)
                                 ELSE None

\* find_top was asked of a leaf in a container and gave the grandparent of
\* the leaf
C31_Witness ==
    /\ Searches("find_top")
    /\ handled.frames[handled.frame].mode = "Leaf"
    /\ handled.frames[handled.frame].parent # None
    /\ LET parent == handled.frames[handled.frame].parent.some IN
           /\ handled.frames[parent].mode = "Container"
           /\ handled.frames[parent].parent # None
           /\ handled.ret = handled.frames[parent].parent

\* C32: find_contiguous with the distance 0 gives the frame it is called on,
\* in every direction and on every frame, a frame without parent and a frame
\* whose mode is top included
C32_DistanceZero ==
    (Searches("find_contiguous") /\ handled.arg[2] = 0) => handled.ret = Some(handled.frame)

\* find_contiguous with the distance 0 was asked of a Workspace without
\* parent and gave the Workspace
C32_Witness ==
    /\ Searches("find_contiguous")
    /\ handled.arg[2] = 0
    /\ handled.frames[handled.frame].mode = "Workspace"
    /\ handled.frames[handled.frame].parent = None
    /\ handled.ret = Some(handled.frame)

\* the parent's geometry matches the direction
Along(geometry, direction) ==
    \/ geometry = "Vertical" /\ direction \in {"North", "South"}
    \/ geometry = "Horizontal" /\ direction \in {"West", "East"}

\* the frame the search moves to from f and the distance that is left then
StepFrom(fs, f, direction, d) ==
    LET parent == fs[f].parent.some
        siblings == fs[parent].space
        i == CHOOSE k \in DOMAIN siblings : siblings[k] = f
        j == IF direction \in {"North", "West"} THEN i - 1 ELSE i + 1
        sibling == Along(fs[parent].geometry, direction) /\ j \in DOMAIN siblings
    IN  [frame |-> IF sibling THEN siblings[j] ELSE parent,
         distance |-> IF sibling \/ direction = "Up" THEN d - 1 ELSE d]

\* the frame contiguous to f at the distance d, step by step
RECURSIVE Contiguous(_, _, _, _)
Contiguous(fs, f, direction, d) ==
    IF d = 0 THEN Some(f)
    ELSE IF fs[f].parent = None THEN None
    ELSE LET step == StepFrom(fs, f, direction, d) IN
         IF fs[step.frame].mode \in {"Display", "Workspace"} THEN None
         ELSE Contiguous(fs, step.frame, direction, step.distance)

\* C33: find_contiguous with a distance of 1 or more moves to the previous
\* or next spatial sibling when the geometry of the parent matches the
\* direction and that sibling is there, to the parent otherwise; the distance
\* goes down by one only when a sibling was taken or the direction is Up; the
\* result is none when the frame has no parent or the frame moved to has a
\* top mode, even if that move used up the distance
C33_FindContiguous ==
    (Searches("find_contiguous") /\ handled.arg[2] >= 1) =>
        LET fs == handled.frames
            f == handled.frame
            direction == handled.arg[1]
            d == handled.arg[2]
        IN  /\ handled.ret = Contiguous(fs, f, direction, d)
            /\ fs[f].parent = None => handled.ret = None
            /\ (fs[f].parent # None
                    /\ fs[StepFrom(fs, f, direction, d).frame].mode
                           \in {"Display", "Workspace"})
                   => handled.ret = None

\* find_contiguous climbed from a frame to its parent without a change of
\* the distance and then took a sibling of the parent
C33_Witness ==
    /\ Searches("find_contiguous")
    /\ handled.arg[1] # "Up"
    /\ handled.arg[2] = 1
    /\ handled.ret # None
    /\ handled.frames[handled.frame].parent # None
    /\ handled.frames[handled.ret.some].parent # handled.frames[handled.frame].parent

\* the points of the area of a frame
Points(a) ==
    {<<x, y>> : x \in a.pos[1] .. a.pos[1] + a.size[1] - 1,
                y \in a.pos[2] .. a.pos[2] + a.size[2] - 1}

\* remove_self has taken f from its parent and has relaxed the parent
Unlinked(before, f) ==
    LET parent == before[f].parent.some IN
    /\ frames[f].parent = None
    /\ frames[parent].space = Without(before[parent].space, f)
    /\ frames[parent].time = Without(before[parent].time, f)
    /\ frames = homogenize(Packed(Frame_remove(before, f), coord, <<>>), parent).fs

\* the children that remain under the parent of f cover the area f had
Reclaimed(before, f) ==
    LET remaining == frames[before[f].parent.some].space IN
    remaining # <<>> =>
        Points(before[f]) \subseteq UNION {Points(frames[remaining[i]]) : i \in DOMAIN remaining}

\* C34: remove_self on a frame with a parent unlinks the frame and then
\* homogenizes the former parent again, so that the children that remain are
\* resized and repositioned and reclaim the freed space; remove_self on a
\* frame without parent changes nothing in the tree and has no surface
\* reconfigured
C34_Claim ==
    \A f \in DOMAIN frames :
        Packs("remove_self", f) =>
            IF handled.frames[f].parent = None
            THEN frames = handled.frames /\ handled.ev = <<>>
            ELSE Unlinked(handled.frames, f) /\ Reclaimed(handled.frames, f)

\* the surface ids manage_surface has settled a leaf for, oldest first: the
\* leaves of the heap in the order they were made
ManagedSids(fs) ==
    LET leaves == SelectSeq([f \in DOMAIN fs |-> f], LAMBDA f : fs[f].mode = "Leaf") IN
    [i \in DOMAIN leaves |-> fs[leaves[i]].sid]

\* the last place of x in the sequence seq
LastPlace(seq, x) == CHOOSE i \in DOMAIN seq : seq[i] = x /\ \A j \in DOMAIN seq : seq[j] = x => j <= i

\* C35: after any sequence of manage_surface calls that returned, the
\* surface history holds each managed surface id once and no other id, and
\* lists the ids most recently managed first; managing a surface id that is
\* in the history moves it to the front and adds no second entry
C35_HistoryOrder ==
    LET history == compositor.history
        managed == ManagedSids(frames)
    IN  /\ \A i, j \in DOMAIN history : history[i] = history[j] => i = j
        /\ {history[i] : i \in DOMAIN history} = {managed[i] : i \in DOMAIN managed}
        /\ \A i, j \in DOMAIN history :
               i < j => LastPlace(managed, history[i]) > LastPlace(managed, history[j])
        /\ \A sid \in SidArgs(MaxFrameSurfaces) :
               (/\ Managed(sid)
                /\ handled.known
                /\ ~unwound
                /\ \E i \in DOMAIN handled.compositor.history :
                       handled.compositor.history[i] = sid)
                   => /\ history[1] = sid
                      /\ Len(history) = Len(handled.compositor.history)

\* a surface that was in the history behind another one was managed again
\* and is now in front of it
C35_Witness ==
    /\ Len(compositor.history) = 2
    /\ Len(handled.compositor.history) = 2
    /\ Managed(compositor.history[1])
    /\ handled.compositor.history[2] = compositor.history[1]
    /\ ~unwound

\* the surface ids of a satellite list
Listed(satellites) == {satellites[i] : i \in DOMAIN satellites}

\* unrelate_surface(sid) has run on a surface whose parent was registered:
\* sid has no parent now, is on the list of the old parent no more, and no
\* signal was emitted
Unrelated ==
    LET sid == handled.args[1]
        parent_sid == handled.surfaces[sid].parent_sid
    IN  parent_sid \in DOMAIN handled.surfaces =>
            /\ coord.surfaces[sid].parent_sid = InvalidSid
            /\ sid \notin Listed(coord.surfaces[parent_sid].satellites)
            /\ handled.ev = <<>>

\* unrelate_surface(sid) has run right after relate_surfaces(sid, p)
RoundTrip(sid, p) ==
    /\ handled.op = "unrelate_surface"
    /\ handled.args = <<sid>>
    /\ handled.earlier.op = "relate_surfaces"
    /\ handled.earlier.args = <<sid, p>>

\* the satellite list of p and the parent of sid are what they were before
\* the relate
Restored(sid, p) ==
    /\ coord.surfaces[p].satellites = handled.earlier.surfaces[p].satellites
    /\ coord.surfaces[sid].parent_sid = handled.earlier.surfaces[sid].parent_sid

\* C36: unrelate_surface(sid) on a surface whose parent p is registered
\* leaves sid with an invalid parent id and removes sid from the satellite
\* list of p, so relate_surfaces(sid, p) followed by unrelate_surface(sid)
\* restores the satellite list of p and the parent of sid to their values
\* before the relate; it emits no event
C36_Claim ==
    handled.op = "unrelate_surface" =>
        /\ Unrelated
        /\ \A sid \in DOMAIN coord.surfaces, p \in DOMAIN coord.surfaces :
               RoundTrip(sid, p) => Restored(sid, p)

\* C36 as amended: unrelate_surface(sid) on a surface whose parent p is
\* registered leaves sid with an invalid parent id and removes sid from the
\* satellite list of p, and emits no event; relate_surfaces(sid, p) followed
\* by unrelate_surface(sid) restores the satellite list of p and the parent
\* of sid if, before the relate, sid had no parent and was not on the list
\* of p
C36_Amended ==
    handled.op = "unrelate_surface" =>
        /\ Unrelated
        /\ \A sid \in DOMAIN coord.surfaces, p \in DOMAIN coord.surfaces :
               (/\ RoundTrip(sid, p)
                /\ handled.earlier.surfaces[sid].parent_sid = InvalidSid
                /\ sid \notin Listed(handled.earlier.surfaces[p].satellites))
                   => Restored(sid, p)

\* a surface without parent was related to another surface and unrelated
\* again, and the other surface lists its satellites as before
C36_Witness ==
    \E sid \in DOMAIN coord.surfaces, p \in DOMAIN coord.surfaces :
        /\ RoundTrip(sid, p)
        /\ sid # p
        /\ handled.earlier.surfaces[sid].parent_sid = InvalidSid
        /\ sid \notin Listed(handled.earlier.surfaces[p].satellites)
        /\ sid \in Listed(handled.surfaces[p].satellites)
        /\ Restored(sid, p)

\* the leaves of the tree that are bound to the surface sid
LeavesBoundTo(sid) ==
    {f \in Subtree(frames, compositor.root) : frames[f].mode = "Leaf" /\ frames[f].sid = sid}

\* C37: whatever the clients call on the Coordinator (show_surface,
\* hide_surface, commit_surface, relate_surfaces, destroy_surface), when the
\* Exhibitor handles each SURFACE_READY by manage_surface and each
\* SURFACE_DESTROYED by removing the frame find_with_sid gives, and no signal
\* to the Exhibitor is lost, the frame tree never holds two leaves bound to
\* the same surface id
C37_Claim ==
    dropped = {} =>
        \A sid \in SidArgs(MaxFrameSurfaces) : Cardinality(LeavesBoundTo(sid)) <= 1

\* C38: in every reachable state of the Coordinator the parent links and the
\* satellite lists agree: a surface s with a valid parent id p has p
\* registered and is on the satellite list of p, and every id other than p on
\* the satellite list of p names a registered surface whose parent id is p;
\* also after a related surface was related to another parent and after a
\* child or a parent was destroyed
C38_Claim ==
    /\ \A sid \in DOMAIN coord.surfaces :
           LET parent_sid == coord.surfaces[sid].parent_sid IN
           parent_sid # InvalidSid =>
               /\ parent_sid \in DOMAIN coord.surfaces
               /\ sid \in Listed(coord.surfaces[parent_sid].satellites)
    /\ \A parent_sid \in DOMAIN coord.surfaces :
           \A sid \in Listed(coord.surfaces[parent_sid].satellites) \ {parent_sid} :
               /\ sid \in DOMAIN coord.surfaces
               /\ coord.surfaces[sid].parent_sid = parent_sid

\* the other surfaces a surface lists as its satellites
OtherSatellites(c, sid) ==
    IF sid \in DOMAIN c.surfaces THEN Listed(c.surfaces[sid].satellites) \ {sid} ELSE {}

\* the surfaces get_renderer_context comes to from the surfaces S in up to n
\* steps of its recursion
RECURSIVE ComesTo(_, _, _)
ComesTo(c, S, n) ==
    IF n = 0 THEN S
    ELSE ComesTo(c, S \cup UNION {OtherSatellites(c, sid) : sid \in S}, n - 1)

\* C39: get_renderer_context(sid) terminates in every state of the
\* Coordinator that relate_surfaces and unrelate_surface calls lead to, also
\* after relate_surfaces(a, b) and relate_surfaces(b, a) and after
\* relate_surfaces(a, a); the satellite lists it recurses over never form a
\* cycle through two different surfaces
C39_Claim ==
    \A sid \in DOMAIN coord.surfaces :
        /\ get_renderer_context(coord, sid) # Overflow
        /\ sid \notin ComesTo(coord, OtherSatellites(coord, sid),
                               Cardinality(DOMAIN coord.surfaces))

\* the mutexes thread t is about to lock
Wants(t) ==
    IF locks[t].plan # <<>> /\ Head(locks[t].plan).do = "lock"
    THEN {Head(locks[t].plan).mutex} ELSE {}

\* thread t cannot go on before thread u has dropped a guard
WaitsFor(t, u) == \E mutex \in Wants(t) : u \in Owner(mutex)

\* every thread of the set waits for a thread of the set
Deadlocked(waiting) == waiting # {} /\ \A t \in waiting : \E u \in waiting : WaitsFor(t, u)

\* each mutex is held by at most one thread, Coordinator.inner is only
\* locked by a thread that holds no guard, Signaler.inner is never locked by
\* a thread that holds it already, and no set of threads waits for one
\* another
LockDiscipline ==
    /\ \A mutex \in Mutexes : Cardinality(Owner(mutex)) <= 1
    /\ \A t \in Threads :
           /\ "coordinator" \in Wants(t) => locks[t].held = {}
           /\ "signaler" \in Wants(t) => "signaler" \notin locks[t].held
    /\ \A waiting \in SUBSET Threads : ~Deadlocked(waiting)

\* C40: the two mutexes never deadlock: in every interleaving the lock
\* discipline holds (Signaler.inner is locked after Coordinator.inner and
\* never the other way round, no thread locks a mutex it holds, no threads
\* wait for one another), and a thread that waits for Coordinator.inner or
\* for Signaler.inner eventually holds it.
C40_NoDeadlock ==
    /\ []LockDiscipline
    /\ \A t \in Threads : \A mutex \in Mutexes :
           (mutex \in Wants(t)) ~> (mutex \in locks[t].held)

\* a thread that holds Coordinator.inner waits for Signaler.inner, which
\* another thread holds
C40_Witness ==
    \E t \in Threads, u \in Threads :
        /\ t # u
        /\ locks[t].held = {"coordinator"}
        /\ "signaler" \in Wants(t)
        /\ locks[u].held = {"signaler"}

============================================================================
